---- MODULE Spec2Model ----
(***************************************************************************)
(* highs-mcp: the tool-call handler (validate, encode, solve, decode) of   *)
(* the HiGHS MCP server, with the zod validation of schemas.ts, the LP     *)
(* encoder of encode.ts and the result decoder of decode.ts.               *)
(*                                                                         *)
(* Representation.  An optional field is a sequence of length 0 (absent,   *)
(* undefined) or 1 (present).  A bound is <<"fin", n>> or <<"inf", s>>     *)
(* with s the sign of the IEEE infinity.  The LP text is the sequence of   *)
(* its newline-terminated lines, a line being the sequence of its          *)
(* blank-separated tokens; numbers are rendered with ToString, as the      *)
(* template literals of the source render them.                            *)
(***************************************************************************)
EXTENDS Integers, Sequences, FiniteSets, TLC

VARIABLES request, pc, issues, error, highsInstance, loaderCalls,
          lpString, result, decoded, trace, calls, inflight

vars == <<request, pc, issues, error, highsInstance, loaderCalls,
          lpString, result, decoded, trace, calls, inflight>>

\* the bounds of the model
MaxVars == 2
MaxCons == 2
MaxEntries == 2
MaxCoef == 2
MaxCalls == 2
MaxConcurrent == 2

None == <<>>
Some(v) == <<v>>
IsSome(m) == Len(m) = 1
Get(m) == m[1]

Fin(n) == <<"fin", n>>
Infinity == <<"inf", 1>>
NegInfinity == <<"inf", -1>>

Abs(n) == IF n < 0 THEN -n ELSE n

\* `${n}` for a bound: a finite number, or the text JavaScript gives an infinity
BoundStr(b) ==
  IF b[1] = "inf" THEN (IF b[2] > 0 THEN "Infinity" ELSE "-Infinity")
  ELSE ToString(b[2])

TOOL_NAME == "optimize-mip-lp-tool"

(***************************************************************************)
(* schemas.ts: validation.  A parse yields a status (valid, dirty: issues  *)
(* were added but the value is usable, aborted) and the issues it added,   *)
(* each with its path joined by "." and its message.                       *)
(***************************************************************************)
Issue(path, message) == [path |-> path, message |-> message]

Merge(a, b) ==
  IF a = "aborted" \/ b = "aborted" THEN "aborted"
  ELSE IF a = "dirty" \/ b = "dirty" THEN "dirty"
  ELSE "valid"

Parsed(status, iss) == [status |-> status, issues |-> iss]

\* Array.prototype.every over a sequence of numbers
EveryBelow(s, bound) == \A i \in 1..Len(s) : s[i] < bound

\* a refinement that measures a dense matrix by its first row only
QuadraticRefineOk_FirstRowOnly(data) ==
  IF data.format = "sparse"
  THEN /\ data.shape[1] = data.shape[2]
       /\ Len(data.rows) = Len(data.cols)
       /\ Len(data.rows) = Len(data.values)
       /\ EveryBelow(data.rows, data.shape[1])
       /\ EveryBelow(data.cols, data.shape[2])
  ELSE /\ Len(data.matrix) > 0
       /\ Len(data.matrix) = Len(data.matrix[1])

QuadraticRefineOk(data) ==
  IF data.format = "sparse"
  THEN /\ data.shape[1] = data.shape[2]
       /\ Len(data.rows) = Len(data.cols)
       /\ Len(data.rows) = Len(data.values)
       /\ EveryBelow(data.rows, data.shape[1])
       /\ EveryBelow(data.cols, data.shape[2])
  ELSE LET matrix == data.matrix IN
       /\ Len(matrix) > 0
       /\ Len(matrix) = Len(matrix[1])
       /\ \A i \in 1..Len(matrix) : Len(matrix[i]) = Len(matrix)

QuadraticObjectiveSchema(data, path) ==
  IF QuadraticRefineOk(data) THEN Parsed("valid", <<>>)
  ELSE Parsed("dirty",
         <<Issue(path, "Quadratic matrix must be square with valid dimensions")>>)

\* a size read from the second dimension of a sparse shape
QSize_SecondDimension(q) == IF q.format = "sparse" THEN q.shape[2] ELSE Len(q.matrix)

QSize(q) == IF q.format = "sparse" THEN q.shape[1] ELSE Len(q.matrix)

ObjectiveRefineOk(data) ==
  IF ~IsSome(data.linear) /\ ~IsSome(data.quadratic) THEN FALSE
  ELSE IF IsSome(data.linear) /\ IsSome(data.quadratic)
       THEN Len(Get(data.linear)) = QSize(Get(data.quadratic))
       ELSE TRUE

ObjectiveSchema(data, path) ==
  LET q == IF IsSome(data.quadratic)
           THEN QuadraticObjectiveSchema(Get(data.quadratic), path \o ".quadratic")
           ELSE Parsed("valid", <<>>)
  IN IF ObjectiveRefineOk(data) THEN q
     ELSE Parsed(Merge(q.status, "dirty"),
            q.issues \o <<Issue(path,
              "At least one of 'linear' or 'quadratic' must be provided. When both are present, dimensions must match.")>>)

\* "dense" in constraints, "sparse" in constraints
IsDense(constraints) == "dense" \in DOMAIN constraints
IsSparse(constraints) == "sparse" \in DOMAIN constraints

\* z.union([DenseConstraintsSchema, SparseConstraintsSchema]): the dense
\* option is dirty when the matrix has no row (.min(1)); the sparse option
\* has no length rule of its own
ConstraintsSchema(data, path) ==
  IF IsDense(data) /\ Len(data.dense) < 1
  THEN Parsed("dirty", <<Issue(path \o ".dense", "At least one constraint is required")>>)
  ELSE Parsed("valid", <<>>)

VariablesSchema(data, path) ==
  IF Len(data) < 1
  THEN Parsed("dirty", <<Issue(path, "At least one variable is required")>>)
  ELSE Parsed("valid", <<>>)

SenseSchema(data, path) ==
  IF data \in {"minimize", "maximize"} THEN Parsed("valid", <<>>)
  ELSE Parsed("aborted",
         <<Issue(path, "Invalid enum value. Expected 'minimize' | 'maximize', received '"
                        \o data \o "'")>>)

\* a row check that stops at the first row of the wrong length
DenseRowIssues_FirstOnly(dense, numVars, path) ==
  LET bad == {i \in 1..Len(dense) : Len(dense[i]) # numVars}
  IN IF bad = {} THEN <<>>
     ELSE LET i == CHOOSE k \in bad : \A j \in bad : k <= j
          IN <<Issue(path \o ".constraints.dense." \o ToString(i-1),
                 "Constraint row " \o ToString(i-1) \o " has "
                 \o ToString(Len(dense[i])) \o " coefficients but expected "
                 \o ToString(numVars)
                 \o " (matching the number of variables in the objective function)")>>

\* dense.forEach((row, index) => ...): one issue per row of the wrong length
DenseRowIssues(dense, numVars, path) ==
  LET f[i \in 0..Len(dense)] ==
        IF i = 0 THEN <<>>
        ELSE f[i-1] \o
             (IF Len(dense[i]) # numVars
              THEN <<Issue(path \o ".constraints.dense." \o ToString(i-1),
                       "Constraint row " \o ToString(i-1) \o " has "
                       \o ToString(Len(dense[i])) \o " coefficients but expected "
                       \o ToString(numVars)
                       \o " (matching the number of variables in the objective function)")>>
              ELSE <<>>)
  IN f[Len(dense)]

\* a row check that lets the index numConstraints itself through
SparseRowIssues_AllowsEqual(rows, numConstraints, path) ==
  LET f[i \in 0..Len(rows)] ==
        IF i = 0 THEN <<>>
        ELSE f[i-1] \o
             (IF rows[i] > numConstraints
              THEN <<Issue(path \o ".constraints.sparse.rows." \o ToString(i-1),
                       "Row index " \o ToString(rows[i])
                       \o " exceeds number of constraints ("
                       \o ToString(numConstraints) \o ")")>>
              ELSE <<>>)
  IN f[Len(rows)]

\* sparse.rows.forEach((row, i) => ...)
SparseRowIssues(rows, numConstraints, path) ==
  LET f[i \in 0..Len(rows)] ==
        IF i = 0 THEN <<>>
        ELSE f[i-1] \o
             (IF rows[i] >= numConstraints
              THEN <<Issue(path \o ".constraints.sparse.rows." \o ToString(i-1),
                       "Row index " \o ToString(rows[i])
                       \o " exceeds number of constraints ("
                       \o ToString(numConstraints) \o ")")>>
              ELSE <<>>)
  IN f[Len(rows)]

\* sparse.cols.forEach((col, i) => ...): compared with numVars
SparseColIssues(cols, numVars, path) ==
  LET f[i \in 0..Len(cols)] ==
        IF i = 0 THEN <<>>
        ELSE f[i-1] \o
             (IF cols[i] >= numVars
              THEN <<Issue(path \o ".constraints.sparse.cols." \o ToString(i-1),
                       "Column index " \o ToString(cols[i])
                       \o " exceeds number of variables ("
                       \o ToString(numVars) \o ")")>>
              ELSE <<>>)
  IN f[Len(cols)]

SparseIssues(sparse, numVars, path) ==
  LET numConstraints == sparse.shape[1]
      matrixVars == sparse.shape[2]
  IN (IF matrixVars # numVars
      THEN <<Issue(path \o ".constraints.sparse.shape",
               "Sparse matrix shape [" \o ToString(numConstraints) \o ", "
               \o ToString(matrixVars) \o "] doesn't match number of variables ("
               \o ToString(numVars) \o ")")>>
      ELSE <<>>)
     \o
     (IF Len(sparse.rows) # Len(sparse.values) \/ Len(sparse.cols) # Len(sparse.values)
      THEN <<Issue(path \o ".constraints.sparse",
               "Sparse matrix arrays (rows, cols, values) must have equal length")>>
      ELSE <<>>)
     \o SparseRowIssues(sparse.rows, numConstraints, path)
     \o SparseColIssues(sparse.cols, numVars, path)

\* a test that takes only an integer variable for non-continuous
NonCont_IntegerOnly(v) == IsSome(v.type) /\ Get(v.type) = "int"

\* v.type && v.type !== "cont"
NonCont(v) == IsSome(v.type) /\ Get(v.type) # "cont"

NumConstraintsOf(constraints) ==
  IF IsDense(constraints) THEN Len(constraints.dense)
  ELSE IF IsSparse(constraints) THEN constraints.sparse.shape[1]
  ELSE 0

\* a derivation that prefers the quadratic dimension to the linear length
NumVarsOf_PrefersQuadratic(objective) ==
  IF IsSome(objective.quadratic) THEN QSize(Get(objective.quadratic))
  ELSE Len(Get(objective.linear))

\* the number of variables superRefine derives from the objective
NumVarsOf(objective) ==
  IF IsSome(objective.linear) THEN Len(Get(objective.linear))
  ELSE QSize(Get(objective.quadratic))

\* ProblemSchema's superRefine callback
SuperRefine(data, path) ==
  IF ~IsSome(data.objective.linear) /\ ~IsSome(data.objective.quadratic)
  THEN <<Issue(path \o ".objective",
           "Cannot determine number of variables from objective")>>
  ELSE
    LET numVars == NumVarsOf(data.objective)
        numConstraints == NumConstraintsOf(data.constraints)
    IN (IF IsSome(data.objective.quadratic)
           /\ \E i \in 1..Len(data.variables) : NonCont(data.variables[i])
        THEN <<Issue(path \o ".objective.quadratic",
                 "Quadratic objectives are not supported with integer or binary variables (MIQP not supported by HiGHS)")>>
        ELSE <<>>)
       \o
       (IF IsDense(data.constraints)
        THEN DenseRowIssues(data.constraints.dense, numVars, path)
        ELSE IF IsSparse(data.constraints)
        THEN SparseIssues(data.constraints.sparse, numVars, path)
        ELSE <<>>)
       \o
       (IF Len(data.constraints.sense) # numConstraints
        THEN <<Issue(path \o ".constraints.sense",
                 "Constraint sense array has " \o ToString(Len(data.constraints.sense))
                 \o " elements but expected " \o ToString(numConstraints)
                 \o " (matching the number of constraints)")>>
        ELSE <<>>)
       \o
       (IF Len(data.constraints.rhs) # numConstraints
        THEN <<Issue(path \o ".constraints.rhs",
                 "Constraint rhs array has " \o ToString(Len(data.constraints.rhs))
                 \o " elements but expected " \o ToString(numConstraints)
                 \o " (matching the number of constraints)")>>
        ELSE <<>>)
       \o
       (IF Len(data.variables) # numVars
        THEN <<Issue(path \o ".variables",
                 "Variables array has " \o ToString(Len(data.variables))
                 \o " elements but expected " \o ToString(numVars)
                 \o " (matching the number of variables in the objective function)")>>
        ELSE <<>>)

\* z.object({sense, objective, constraints, variables}).superRefine(...):
\* every key is parsed, the refinement runs unless a key aborted
ProblemSchema(data, path) ==
  LET s == SenseSchema(data.sense, path \o ".sense")
      o == ObjectiveSchema(data.objective, path \o ".objective")
      c == ConstraintsSchema(data.constraints, path \o ".constraints")
      v == VariablesSchema(data.variables, path \o ".variables")
      inner == Merge(Merge(s.status, o.status), Merge(c.status, v.status))
      keyIssues == s.issues \o o.issues \o c.issues \o v.issues
  IN IF inner = "aborted" THEN Parsed("aborted", keyIssues)
     ELSE LET r == SuperRefine(data, path)
          IN Parsed(IF r # <<>> THEN "dirty" ELSE inner, keyIssues \o r)

\* OptionsSchema: time_limit is z.number().positive().optional()
OptionsSchema(data, path) ==
  IF IsSome(data) /\ IsSome(Get(data).time_limit) /\ Get(Get(data).time_limit) <= 0
  THEN Parsed("dirty", <<Issue(path \o ".time_limit", "Number must be greater than 0")>>)
  ELSE Parsed("valid", <<>>)

\* OptimizationArgsSchema.safeParse(args)
OptimizationArgsSchema(args) ==
  LET p == ProblemSchema(args.problem, "problem")
      o == OptionsSchema(args.options, "options")
  IN Parsed(Merge(p.status, o.status), p.issues \o o.issues)

\* a validator that lets a request with issues through
Success_AcceptsDirty(parsed) == parsed.status # "aborted"

Success(parsed) == parsed.status = "valid"

\* errors.map(e => path ? `${path}: ${e.message}` : e.message)
ErrorMessages(iss) ==
  [i \in 1..Len(iss) |->
     IF iss[i].path # "" THEN iss[i].path \o ": " \o iss[i].message
     ELSE iss[i].message]

(***************************************************************************)
(* encode.ts: the LP encoder.                                              *)
(***************************************************************************)
\* constraintMatrix[r][c] = v on a matrix of JavaScript arrays (0-based r, c)
\* a conversion that adds a repeated entry to the cell instead of replacing it
SetCell_Accumulates(matrix, r, c, v) == [matrix EXCEPT ![r + 1][c + 1] = @ + v]

SetCell(matrix, r, c, v) == [matrix EXCEPT ![r + 1][c + 1] = v]

\* Array(numConstraints).fill(null).map(() => Array(numCols).fill(0))
ZeroMatrix(numConstraints, numCols) ==
  [r \in 1..numConstraints |-> [c \in 1..numCols |-> 0]]

\* a conversion in which the first entry stored at a coordinate is kept
convertConstraintsToDense_FirstWins(constraints) ==
  IF IsDense(constraints)
  THEN [constraintMatrix |-> constraints.dense,
        numConstraints |-> Len(constraints.dense)]
  ELSE LET sparse == constraints.sparse
           numConstraints == sparse.shape[1]
           numCols == sparse.shape[2]
           n == Len(sparse.values)
           fill[i \in 0..n] ==
             IF i = 0 THEN ZeroMatrix(numConstraints, numCols)
             ELSE SetCell(fill[i-1], sparse.rows[n + 1 - i], sparse.cols[n + 1 - i],
                          sparse.values[n + 1 - i])
       IN [constraintMatrix |-> fill[n], numConstraints |-> numConstraints]

convertConstraintsToDense(constraints) ==
  IF IsDense(constraints)
  THEN [constraintMatrix |-> constraints.dense,
        numConstraints |-> Len(constraints.dense)]
  ELSE LET sparse == constraints.sparse
           numConstraints == sparse.shape[1]
           numCols == sparse.shape[2]
           fill[i \in 0..Len(sparse.values)] ==
             IF i = 0 THEN ZeroMatrix(numConstraints, numCols)
             ELSE SetCell(fill[i-1], sparse.rows[i], sparse.cols[i], sparse.values[i])
       IN [constraintMatrix |-> fill[Len(sparse.values)],
           numConstraints |-> numConstraints]

\* a formatter that signs a positive first term
formatCoefficient_SignsFirst(coeff, varName, isFirst) ==
  IF coeff = 0 THEN <<>>
  ELSE IF coeff = 1 THEN <<"+", varName>>
  ELSE IF coeff = -1 THEN <<"-", varName>>
  ELSE IF coeff > 0 THEN <<"+", ToString(coeff), varName>>
  ELSE <<"-", ToString(Abs(coeff)), varName>>

\* a term is the sequence of its tokens; the empty string is the empty term
formatCoefficient(coeff, varName, isFirst) ==
  IF coeff = 0 THEN <<>>
  ELSE IF coeff = 1 THEN (IF isFirst THEN <<varName>> ELSE <<"+", varName>>)
  ELSE IF coeff = -1 THEN <<"-", varName>>
  ELSE IF coeff > 0
       THEN (IF isFirst THEN <<ToString(coeff), varName>>
             ELSE <<"+", ToString(coeff), varName>>)
  ELSE <<"-", ToString(Abs(coeff)), varName>>

\* variables[i].name || `x${i + 1}`, at each place the source writes it
\* (i is the 1-based position here, so the default is x<i>)
ObjectiveVarName(variables, i) ==
  IF IsSome(variables[i].name) /\ Get(variables[i].name) # ""
  THEN Get(variables[i].name) ELSE "x" \o ToString(i)

ConstraintVarName(variables, j) ==
  IF IsSome(variables[j].name) /\ Get(variables[j].name) # ""
  THEN Get(variables[j].name) ELSE "x" \o ToString(j)

\* a Bounds section that writes an empty name as it is given
BoundsVarName_KeepsEmpty(variables, i) ==
  IF IsSome(variables[i].name) THEN Get(variables[i].name) ELSE "x" \o ToString(i)

BoundsVarName(variables, i) ==
  IF IsSome(variables[i].name) /\ Get(variables[i].name) # ""
  THEN Get(variables[i].name) ELSE "x" \o ToString(i)

TypesVarName(variables, i) ==
  IF IsSome(variables[i].name) /\ Get(variables[i].name) # ""
  THEN Get(variables[i].name) ELSE "x" \o ToString(i)

\* the loop over a coefficient row: terms.push(term) when term is non-empty,
\* isFirst being !hasTerms; the result is terms.join(" ")
ObjectiveTerms(linear, variables) ==
  LET f[i \in 0..Len(linear)] ==
        IF i = 0 THEN <<>>
        ELSE f[i-1] \o formatCoefficient(linear[i], ObjectiveVarName(variables, i),
                                         f[i-1] = <<>>)
  IN f[Len(linear)]

formatObjective(sense, objective, variables) ==
  << <<IF sense = "minimize" THEN "Minimize" ELSE "Maximize">>,
     <<"obj:">> \o ObjectiveTerms(Get(objective.linear), variables) >>

RowTerms(row, variables) ==
  LET f[j \in 0..Len(row)] ==
        IF j = 0 THEN <<>>
        ELSE f[j-1] \o formatCoefficient(row[j], ConstraintVarName(variables, j),
                                         f[j-1] = <<>>)
  IN f[Len(row)]

\* a constraints section that leaves out the rows without a term
formatConstraints_SkipsEmptyRows(constraintMatrix, constraints, variables) ==
  LET f[i \in 0..Len(constraintMatrix)] ==
        IF i = 0 THEN << <<"Subject", "To">> >>
        ELSE f[i-1] \o
             (IF RowTerms(constraintMatrix[i], variables) = <<>> THEN <<>>
              ELSE << <<"c" \o ToString(i) \o ":">>
                      \o RowTerms(constraintMatrix[i], variables)
                      \o <<constraints.sense[i], ToString(constraints.rhs[i])>> >>)
  IN f[Len(constraintMatrix)]

formatConstraints(constraintMatrix, constraints, variables) ==
  << <<"Subject", "To">> >> \o
  [i \in 1..Len(constraintMatrix) |->
     <<"c" \o ToString(i) \o ":">>
     \o RowTerms(constraintMatrix[i], variables)
     \o <<constraints.sense[i], ToString(constraints.rhs[i])>>]

\* a Bounds section in which a binary variable always gets [0, 1]
formatBounds_BinaryForcesUnit(variables) ==
  << <<"Bounds">> >> \o
  [i \in 1..Len(variables) |->
     LET variable == variables[i]
         varName == BoundsVarName(variables, i)
         variableType == IF IsSome(variable.type) THEN Get(variable.type) ELSE "cont"
         lower == IF variableType = "bin" THEN Fin(0)
                  ELSE IF IsSome(variable.lb) THEN Get(variable.lb) ELSE Fin(0)
         upper == IF variableType = "bin" THEN Fin(1)
                  ELSE IF IsSome(variable.ub) THEN Get(variable.ub) ELSE Infinity
     IN IF lower = NegInfinity /\ upper = Infinity THEN <<varName, "free">>
        ELSE IF lower = NegInfinity
             THEN <<"-inf", "<=", varName, "<=", BoundStr(upper)>>
        ELSE IF upper = Infinity
             THEN <<BoundStr(lower), "<=", varName, "<=", "+inf">>
        ELSE <<BoundStr(lower), "<=", varName, "<=", BoundStr(upper)>>]

formatBounds(variables) ==
  << <<"Bounds">> >> \o
  [i \in 1..Len(variables) |->
     LET variable == variables[i]
         varName == BoundsVarName(variables, i)
         variableType == IF IsSome(variable.type) THEN Get(variable.type) ELSE "cont"
         lower == IF IsSome(variable.lb) THEN Get(variable.lb) ELSE Fin(0)
         upper == IF IsSome(variable.ub) THEN Get(variable.ub)
                  ELSE IF variableType = "bin" THEN Fin(1) ELSE Infinity
     IN IF lower = NegInfinity /\ upper = Infinity THEN <<varName, "free">>
        ELSE IF lower = NegInfinity
             THEN <<"-inf", "<=", varName, "<=", BoundStr(upper)>>
        ELSE IF upper = Infinity
             THEN <<BoundStr(lower), "<=", varName, "<=", "+inf">>
        ELSE <<BoundStr(lower), "<=", varName, "<=", BoundStr(upper)>>]

\* the names of the variables of one type, in variable order
VarsOfType(variables, type) ==
  LET f[i \in 0..Len(variables)] ==
        IF i = 0 THEN <<>>
        ELSE f[i-1] \o
             (IF (IF IsSome(variables[i].type) THEN Get(variables[i].type) ELSE "cont") = type
              THEN <<TypesVarName(variables, i)>> ELSE <<>>)
  IN f[Len(variables)]

\* an integrality section that writes its headings also over an empty list
formatVariableTypes_AlwaysHeadings(variables) ==
  << <<"General">>, VarsOfType(variables, "int"),
     <<"Binary">>, VarsOfType(variables, "bin") >>

formatVariableTypes(variables) ==
  LET integerVars == VarsOfType(variables, "int")
      binaryVars == VarsOfType(variables, "bin")
  IN (IF Len(integerVars) > 0 THEN << <<"General">>, integerVars >> ELSE <<>>)
     \o
     (IF Len(binaryVars) > 0 THEN << <<"Binary">>, binaryVars >> ELSE <<>>)

\* objective.linear.length on an objective without linear is a TypeError
encodeThrows(problem) == ~IsSome(problem.objective.linear)

\* an encoder that writes the integrality sections before the Bounds section
encode_TypesBeforeBounds(problem) ==
  LET conv == convertConstraintsToDense(problem.constraints)
  IN formatObjective(problem.sense, problem.objective, problem.variables)
     \o formatConstraints(conv.constraintMatrix, problem.constraints, problem.variables)
     \o formatVariableTypes(problem.variables)
     \o formatBounds(problem.variables)
     \o << <<"End">> >>

encode(problem) ==
  LET conv == convertConstraintsToDense(problem.constraints)
  IN formatObjective(problem.sense, problem.objective, problem.variables)
     \o formatConstraints(conv.constraintMatrix, problem.constraints, problem.variables)
     \o formatBounds(problem.variables)
     \o formatVariableTypes(problem.variables)
     \o << <<"End">> >>

(***************************************************************************)
(* decode.ts: the result decoder.  A status text is the sequence of its    *)
(* characters, so that toLowerCase and the whitespace replacement act on   *)
(* it character by character.                                              *)
(***************************************************************************)
Optimal == <<"O", "p", "t", "i", "m", "a", "l">>
Infeasible == <<"I", "n", "f", "e", "a", "s", "i", "b", "l", "e">>
TimeLimitReached ==
  <<"T", "i", "m", "e", " ", "L", "i", "m", "i", "t", " ",
    "R", "e", "a", "c", "h", "e", "d">>
OptimalLower == <<"o", "p", "t", "i", "m", "a", "l">>
ProblemStatusPrefix ==
  <<"P", "r", "o", "b", "l", "e", "m", " ", "s", "t", "a", "t", "u", "s", ":", " ">>

Upper == <<"A", "B", "C", "D", "E", "F", "G", "H", "I", "J", "K", "L", "M",
           "N", "O", "P", "Q", "R", "S", "T", "U", "V", "W", "X", "Y", "Z">>
Lower == <<"a", "b", "c", "d", "e", "f", "g", "h", "i", "j", "k", "l", "m",
           "n", "o", "p", "q", "r", "s", "t", "u", "v", "w", "x", "y", "z">>

\* String.prototype.toLowerCase, one character
LowerChar(c) ==
  IF \E k \in 1..Len(Upper) : Upper[k] = c
  THEN Lower[CHOOSE k \in 1..Len(Upper) : Upper[k] = c]
  ELSE c

toLowerCase(str) == [i \in 1..Len(str) |-> LowerChar(str[i])]

\* the characters \s matches, among those the model uses
IsSpace(c) == c \in {" ", "\t", "\n"}

\* a replacement of every single whitespace character
replaceSpaces_EachCharacter(str) ==
  [i \in 1..Len(str) |-> IF IsSpace(str[i]) THEN "_" ELSE str[i]]

\* str.replace(/\s+/g, "_"): every maximal run of whitespace becomes one "_"
replaceSpaces(str) ==
  LET f[i \in 0..Len(str)] ==
        IF i = 0 THEN <<>>
        ELSE IF IsSpace(str[i])
             THEN (IF i > 1 /\ IsSpace(str[i-1]) THEN f[i-1] ELSE f[i-1] \o <<"_">>)
             ELSE f[i-1] \o <<str[i]>>
  IN f[Len(str)]

\* a decoder whose positional default counts from zero
DecodeVarName_ZeroIndexed(variables, i) ==
  IF IsSome(variables[i].name) /\ Get(variables[i].name) # ""
  THEN Get(variables[i].name) ELSE "x" \o ToString(i - 1)

\* problem.variables[i].name || `x${i + 1}` (i is the 1-based position here)
DecodeVarName(variables, i) ==
  IF IsSome(variables[i].name) /\ Get(variables[i].name) # ""
  THEN Get(variables[i].name) ELSE "x" \o ToString(i)

\* column.Primal || 0
PrimalOf(column) ==
  IF "Primal" \in DOMAIN column THEN column.Primal ELSE 0

\* a decoder that reads the primal value where the dual is asked for
DualOf_ReadsPrimal(x) ==
  IF "Primal" \in DOMAIN x THEN x.Primal ELSE 0

\* "Dual" in x ? x.Dual || 0 : 0
DualOf(x) ==
  IF "Dual" \in DOMAIN x THEN x.Dual ELSE 0

decode(res, problem) ==
  IF res.Status = Optimal
  THEN LET numVars == Len(problem.variables)
       IN [status |-> OptimalLower,
           objective_value |-> res.ObjectiveValue,
           solution |->
             [i \in 1..numVars |->
                LET varName == DecodeVarName(problem.variables, i)
                IN IF varName \in DOMAIN res.Columns
                   THEN PrimalOf(res.Columns[varName]) ELSE 0],
           dual_solution |-> [k \in 1..Len(res.Rows) |-> DualOf(res.Rows[k])],
           variable_duals |->
             [i \in 1..numVars |->
                LET varName == DecodeVarName(problem.variables, i)
                IN IF varName \in DOMAIN res.Columns
                   THEN DualOf(res.Columns[varName]) ELSE 0]]
  ELSE [status |-> replaceSpaces(toLowerCase(res.Status)),
        message |-> ProblemStatusPrefix \o res.Status,
        objective_value |-> res.ObjectiveValue]

(***************************************************************************)
(* The external solver, highs.solve(lpString, options): a black box that   *)
(* reads the LP text and returns a result keyed by the column names it     *)
(* found in the Bounds section, with one row per constraint line.          *)
(***************************************************************************)
FirstLine(lp, line) == CHOOSE i \in 1..Len(lp) : lp[i] = line /\ \A j \in 1..(i-1) : lp[j] # line

\* the lines of the Bounds section: from the Bounds heading to the next
\* one-token line (General, Binary or End)
LpBoundsLines(lp) ==
  LET b == FirstLine(lp, <<"Bounds">>)
      e == CHOOSE i \in (b+1)..Len(lp) :
             Len(lp[i]) = 1 /\ \A j \in (b+1)..(i-1) : Len(lp[j]) # 1
  IN SubSeq(lp, b + 1, e - 1)

LpColumnName(line) == IF Len(line) = 2 THEN line[1] ELSE line[3]

LpColumnNames(lp) ==
  LET lines == LpBoundsLines(lp) IN [i \in 1..Len(lines) |-> LpColumnName(lines[i])]

\* the constraint lines: between the Subject To heading and the Bounds heading
LpNumRows(lp) == FirstLine(lp, <<"Bounds">>) - FirstLine(lp, <<"Subject", "To">>) - 1

SeqRange(s) == {s[i] : i \in 1..Len(s)}

\* a status text with a run of two blanks
NotSetSpaced == <<"N", "o", "t", " ", " ", "S", "e", "t">>
NaN == <<"nan", 0>>
\* Status is a string: the optimal token in another case is one of its values
OptimalUpper == <<"O", "P", "T", "I", "M", "A", "L">>
NonOptimalStatuses == {Infeasible, TimeLimitReached, NotSetSpaced, OptimalUpper}
ObjectiveValues == {Fin(0), Infinity, NegInfinity, NaN}

\* the first Bounds line that names a column
ColumnPosition(names, name) ==
  CHOOSE k \in 1..Len(names) : names[k] = name /\ \A j \in 1..(k-1) : names[j] # name

\* The results the solver may return for an LP text.  Optimal: the columns
\* carry pairwise different primal values (v shifts them), one column may be
\* left out (drop), and every other column and row lacks its Dual, or every
\* other column its Primal (missing).
SolverResults(lp) ==
  LET names == LpColumnNames(lp)
      n == Len(names)
      m == LpNumRows(lp)
  IN { [Status |-> Optimal,
        ObjectiveValue |-> Fin(6),
        Columns |->
          [name \in {names[k] : k \in (1..n) \ {drop}} |->
             LET k == ColumnPosition(names, name)
             IN IF missing = "Dual" /\ k % 2 = 1
                THEN [Primal |-> (k + v) % 3]
                ELSE IF missing = "Primal" /\ k % 2 = 1
                THEN [Dual |-> k + v]
                ELSE [Primal |-> (k + v) % 3, Dual |-> k + v]],
        Rows |->
          [r \in 1..m |->
             IF missing = "Dual" /\ r % 2 = 1 THEN [Primal |-> r]
             ELSE [Primal |-> r, Dual |-> r + v]]] :
         v \in 1..2, drop \in 0..n, missing \in {"none", "Dual", "Primal"} }
     \cup
     { [Status |-> st, ObjectiveValue |-> ov, Columns |-> <<>>, Rows |-> <<>>] :
         st \in NonOptimalStatuses, ov \in ObjectiveValues }

(***************************************************************************)
(* index.ts: the CallToolRequestSchema handler, one tool call.             *)
(***************************************************************************)
NoError == [code |-> "none", errors |-> <<>>]
NoResult == [Status |-> <<>>, ObjectiveValue |-> Fin(0), Columns |-> <<>>, Rows |-> <<>>]
NoDecoded == [status |-> <<>>]

\* request.params.name !== TOOL_NAME: throw MethodNotFound
UnknownTool ==
  /\ pc = "start"
  /\ request.name # TOOL_NAME
  /\ pc' = "thrown"
  /\ error' = [code |-> "MethodNotFound", errors |-> <<>>]
  /\ UNCHANGED <<inflight, request, issues, highsInstance, loaderCalls, lpString, result,
                 decoded, trace, calls>>

\* safeParse fails: throw InvalidParams with the mapped messages
ValidateFail ==
  /\ pc = "start"
  /\ request.name = TOOL_NAME
  /\ LET validationResult == OptimizationArgsSchema(request.arguments)
     IN /\ ~Success(validationResult)
        /\ issues' = validationResult.issues
        /\ error' = [code |-> "InvalidParams",
                     errors |-> ErrorMessages(validationResult.issues)]
  /\ pc' = "thrown"
  /\ trace' = Append(trace, "safeParse")
  /\ UNCHANGED <<inflight, request, highsInstance, loaderCalls, lpString, result, decoded, calls>>

\* safeParse succeeds: the handler goes on to await getHighsInstance()
ValidateOk ==
  /\ pc = "start"
  /\ request.name = TOOL_NAME
  /\ LET validationResult == OptimizationArgsSchema(request.arguments)
     IN /\ Success(validationResult)
        /\ issues' = validationResult.issues
  /\ pc' = "getHighs"
  /\ trace' = Append(trace, "safeParse")
  /\ UNCHANGED <<inflight, request, error, highsInstance, loaderCalls, lpString, result, decoded, calls>>

\* getHighsInstance with no cached instance: highsLoader() is called and awaited
LoadHighs ==
  /\ pc = "getHighs"
  /\ highsInstance = "null"
  /\ loaderCalls' = loaderCalls + 1
  /\ highsInstance' = "highs"
  /\ pc' = "encode"
  /\ trace' = Append(trace, "highsLoader")
  /\ UNCHANGED <<inflight, request, issues, error, lpString, result, decoded, calls>>

\* getHighsInstance with the cached instance
CachedHighs ==
  /\ pc = "getHighs"
  /\ highsInstance # "null"
  /\ pc' = "encode"
  /\ UNCHANGED <<inflight, request, issues, error, highsInstance, loaderCalls, lpString,
                 result, decoded, trace, calls>>

\* const lpString = encode(problem)
Encode ==
  /\ pc = "encode"
  /\ ~encodeThrows(request.arguments.problem)
  /\ lpString' = encode(request.arguments.problem)
  /\ pc' = "solve"
  /\ trace' = Append(trace, "encode")
  /\ UNCHANGED <<inflight, request, issues, error, highsInstance, loaderCalls, result, decoded, calls>>

\* encode throws: caught, rethrown as InternalError
EncodeThrows ==
  /\ pc = "encode"
  /\ encodeThrows(request.arguments.problem)
  /\ pc' = "thrown"
  /\ error' = [code |-> "InternalError", errors |-> <<>>]
  /\ trace' = Append(trace, "encode")
  /\ UNCHANGED <<inflight, request, issues, highsInstance, loaderCalls, lpString, result, decoded, calls>>

\* const result = highs.solve(lpString, options || {})
Solve ==
  /\ pc = "solve"
  /\ \E res \in SolverResults(lpString) : result' = res
  /\ pc' = "decode"
  /\ trace' = Append(trace, "solve")
  /\ UNCHANGED <<inflight, request, issues, error, highsInstance, loaderCalls, lpString, decoded, calls>>

\* highs.solve throws: caught, rethrown as InternalError
SolveThrows ==
  /\ pc = "solve"
  /\ pc' = "thrown"
  /\ error' = [code |-> "InternalError", errors |-> <<>>]
  /\ trace' = Append(trace, "solve")
  /\ UNCHANGED <<inflight, request, issues, highsInstance, loaderCalls, lpString, result, decoded, calls>>

\* const decodedResult = decode(result, problem); return it as the tool result
Decode ==
  /\ pc = "decode"
  /\ decoded' = decode(result, request.arguments.problem)
  /\ pc' = "returned"
  /\ trace' = Append(trace, "decode")
  /\ UNCHANGED <<inflight, request, issues, error, highsInstance, loaderCalls, lpString, result, calls>>

(***************************************************************************)
(* The requests the model draws from.                                      *)
(***************************************************************************)
Coefs == (-MaxCoef)..MaxCoef
Senses == <<"<=", ">=", "=">>

DefaultVar == [name |-> None, lb |-> None, ub |-> None, type |-> None]
DefaultVars(n) == [i \in 1..n |-> DefaultVar]
Ones(n) == [i \in 1..n |-> 1]
OnesMatrix(m, n) == [k \in 1..m |-> Ones(n)]

Problem(sense, linear, quadratic, constraints, variables) ==
  [sense |-> sense,
   objective |-> [linear |-> linear, quadratic |-> quadratic],
   constraints |-> constraints,
   variables |-> variables]

DenseConstraints(dense, sense, rhs) == [dense |-> dense, sense |-> sense, rhs |-> rhs]
SparseConstraints(rows, cols, values, shape, sense, rhs) ==
  [sparse |-> [rows |-> rows, cols |-> cols, values |-> values, shape |-> shape],
   sense |-> sense, rhs |-> rhs]
DenseQ(matrix) == [format |-> "dense", matrix |-> matrix]
SparseQ(rows, cols, values, shape) ==
  [format |-> "sparse", rows |-> rows, cols |-> cols, values |-> values, shape |-> shape]

BaseConstraints(n) == DenseConstraints(<<Ones(n)>>, <<"<=">>, <<1>>)
\* m constraints whose senses and right-hand sides differ from row to row
MixedSense(m, shift) == [k \in 1..m |-> Senses[((k + shift) % 3) + 1]]
MixedRhs(m) == [k \in 1..m |-> 2 * k - 3]

Request(name, problem, options) ==
  [name |-> name, arguments |-> [problem |-> problem, options |-> options]]

SeqsUpTo(S, n) == UNION {[1..k -> S] : k \in 0..n}

\* the objective coefficients vary
LinearProblems ==
  UNION { { Problem(sense, Some(linear), None, BaseConstraints(n), DefaultVars(n)) :
              sense \in {"minimize", "maximize"}, linear \in [1..n -> Coefs] } :
          n \in 1..MaxVars }

\* one row of a dense constraint matrix varies
RowCoefs == {-MaxCoef, -1, 0, 1, MaxCoef}
DenseProblems ==
  UNION { { Problem("minimize", Some(Ones(n)), None,
                    DenseConstraints([k \in 1..m |-> IF k = r THEN row ELSE Ones(n)],
                                     MixedSense(m, r), MixedRhs(m)),
                    DefaultVars(n)) :
              r \in 1..m, row \in [1..n -> RowCoefs] } :
          n \in 1..MaxVars, m \in 1..MaxCons }

\* the senses and right-hand sides vary
SenseRhsProblems ==
  UNION { { Problem("minimize", Some(<<1>>), None,
                    DenseConstraints(OnesMatrix(m, 1), sense, rhs), DefaultVars(1)) :
              sense \in [1..m -> SeqRange(Senses)], rhs \in [1..m -> {-3, 10}] } :
          m \in 1..MaxCons }

LbValues == {None, Some(Fin(-5)), Some(NegInfinity), Some(Infinity)}
UbValues == {None, Some(Fin(9)), Some(Infinity), Some(NegInfinity)}
TypeValues == {None, Some("cont"), Some("int"), Some("bin")}
NameValues == {None, Some(""), Some("y"), Some("x2")}

\* the bounds and the type of one variable vary
BoundsProblems ==
  UNION { { Problem("minimize", Some(Ones(n)), None, BaseConstraints(n),
                    [i \in 1..n |-> IF i = r
                                    THEN [name |-> None, lb |-> lb, ub |-> ub, type |-> type]
                                    ELSE DefaultVar]) :
              r \in 1..n, lb \in LbValues, ub \in UbValues, type \in TypeValues } :
          n \in 1..MaxVars }

\* the names vary
NameProblems ==
  UNION { { Problem("minimize", Some(Ones(n)), None, BaseConstraints(n),
                    [i \in 1..n |-> [name |-> names[i], lb |-> None, ub |-> None,
                                     type |-> None]]) :
              names \in [1..n -> NameValues] } :
          n \in 1..MaxVars }

\* the types vary, with and without names
TypeProblems ==
  UNION { { Problem("maximize", Some(Ones(n)), None, BaseConstraints(n),
                    [i \in 1..n |-> [name |-> IF named[i] THEN Some("v" \o ToString(i)) ELSE None,
                                     lb |-> None, ub |-> None, type |-> types[i]]]) :
              named \in [1..n -> BOOLEAN], types \in [1..n -> TypeValues] } :
          n \in 1..MaxVars }

\* sparse constraints within their shape: the stored entries vary over the
\* corners of the matrix, so that coordinates repeat
SparseValues == {0, 1, -2}
SparseShapes == {<<1, 1>>, <<MaxCons, MaxVars>>}
SparseEntries(m, n) ==
  SeqsUpTo({0, m - 1} \X {0, n - 1} \X SparseValues, MaxEntries)
SparseOf(entries, m, n) ==
  SparseConstraints([i \in 1..Len(entries) |-> entries[i][1]],
                    [i \in 1..Len(entries) |-> entries[i][2]],
                    [i \in 1..Len(entries) |-> entries[i][3]],
                    <<m, n>>, MixedSense(m, 0), MixedRhs(m))
SparseProblems ==
  UNION { { Problem("minimize", Some(Ones(shape[2])), None,
                    SparseOf(entries, shape[1], shape[2]), DefaultVars(shape[2])) :
              entries \in SparseEntries(shape[1], shape[2]) } :
          shape \in SparseShapes }

\* quadratic objectives, with and without a linear part
QuadraticProblems ==
  UNION { { Problem("minimize", linear, Some(q), BaseConstraints(n), DefaultVars(n)) :
              linear \in {None, Some(Ones(n))},
              q \in {DenseQ(OnesMatrix(n, n)), SparseQ(<<0>>, <<0>>, <<2>>, <<n, n>>)} } :
          n \in 1..MaxVars }

\* the quadratic objectives of the tests: a symmetric matrix, and the same
\* form stored in the upper triangle only and in the lower triangle only
ExampleQuadratics ==
  {DenseQ(<<<<2, 1>>, <<1, 4>>>>), DenseQ(<<<<2, 2>>, <<0, 4>>>>),
   DenseQ(<<<<2, 0>>, <<2, 4>>>>)}
ExampleQuadraticProblems ==
  { Problem("minimize", linear, Some(q),
            DenseConstraints(<<<<1, 1>>>>, <<">=">>, <<1>>), DefaultVars(2)) :
      linear \in {None, Some(<<1, 2>>)}, q \in ExampleQuadratics }

ValidProblems ==
  LinearProblems \cup DenseProblems \cup SenseRhsProblems \cup BoundsProblems
  \cup NameProblems \cup TypeProblems \cup SparseProblems \cup QuadraticProblems
  \cup ExampleQuadraticProblems

BaseProblem == Problem("minimize", Some(<<1, 2>>), None, BaseConstraints(2), DefaultVars(2))
\* the request of the test "should validate dimension consistency"
MismatchProblem ==
  Problem("minimize", Some(<<1, 2>>), None,
          DenseConstraints(<<<<1, 1, 1>>>>, <<"<=">>, <<10>>), DefaultVars(2))

OptionsValues == {None, Some([time_limit |-> None]), Some([time_limit |-> Some(5)]),
                  Some([time_limit |-> Some(0)])}

\* a few requests around the valid problems: another tool, options, bad sense
FewRequests ==
  { Request(name, problem, options) :
      name \in {TOOL_NAME, "solve_optimization"},
      problem \in {BaseProblem, MismatchProblem, [BaseProblem EXCEPT !.sense = "min"]},
      options \in OptionsValues }

\* the requests that may follow the first one
FollowUps ==
  {Request(TOOL_NAME, BaseProblem, None), Request(TOOL_NAME, MismatchProblem, None),
   Request("solve_optimization", BaseProblem, None)}

Requests ==
  { Request(TOOL_NAME, problem, None) : problem \in ValidProblems } \cup FewRequests

\* the server after start-up, its first request pending
InitWith(R) ==
  /\ request \in R
  /\ pc = "start"
  /\ issues = <<>>
  /\ error = NoError
  /\ highsInstance = "null"
  /\ loaderCalls = 0
  /\ lpString = <<>>
  /\ result = NoResult
  /\ decoded = NoDecoded
  /\ trace = <<>>
  /\ calls = 1
  /\ inflight = <<>>

Init == InitWith(Requests)

\* the handler has returned or thrown; the server takes the next request
NextCall ==
  /\ pc \in {"returned", "thrown"}
  /\ calls < MaxCalls
  /\ calls' = calls + 1
  /\ request' \in FollowUps
  /\ pc' = "start"
  /\ issues' = <<>>
  /\ error' = NoError
  /\ lpString' = <<>>
  /\ result' = NoResult
  /\ decoded' = NoDecoded
  /\ trace' = <<>>
  /\ UNCHANGED <<highsInstance, loaderCalls, inflight>>

Next ==
  \/ UnknownTool
  \/ ValidateFail
  \/ ValidateOk
  \/ LoadHighs
  \/ CachedHighs
  \/ Encode
  \/ EncodeThrows
  \/ Solve
  \/ SolveThrows
  \/ Decode
  \/ NextCall

Spec == Init /\ [][Next]_vars

(***************************************************************************)
(* Requests for the validator: the lengths and shapes vary, the numbers    *)
(* do not.                                                                 *)
(***************************************************************************)
ShapeLinears == {None} \cup {Some(Ones(k)) : k \in 1..(MaxVars + 1)}
ShapeQuadratics ==
  {None, Some(DenseQ(<<<<1, 1>>>>)), Some(DenseQ(<<>>)),
   Some(DenseQ(<<<<1, 1>>, <<1>>>>)),
   Some(SparseQ(<<>>, <<>>, <<>>, <<1, 2>>)),
   Some(SparseQ(<<MaxVars>>, <<0>>, <<>>, <<1, 2>>)),
   Some(SparseQ(<<MaxVars>>, <<0>>, <<1>>, <<MaxVars, MaxVars>>))}
  \cup {Some(DenseQ(OnesMatrix(k, k))) : k \in 1..MaxVars}
  \cup {Some(SparseQ(<<0>>, <<0>>, <<1>>, <<k, k>>)) : k \in 1..MaxVars}

NearLengths(m) == {k \in {m - 1, m, m + 1} : k >= 0}

ShapeVariables ==
  UNION { { [i \in 1..k |-> IF i = 1 THEN [DefaultVar EXCEPT !.type = type] ELSE DefaultVar] :
              type \in {None, Some("int")} } :
          k \in 0..(MaxVars + 1) }

ShapeDense ==
  UNION { { DenseConstraints([k \in 1..m |-> Ones(lens[k])],
                             [k \in 1..ns |-> "<="], [k \in 1..nr |-> 1]) :
              lens \in [1..m -> 1..(MaxVars + 1)],
              ns \in NearLengths(m), nr \in NearLengths(m) } :
          m \in 0..MaxCons }

\* a few dense constraints, one of them with sense and rhs of the wrong length
FewDense ==
  {BaseConstraints(k) : k \in 1..MaxVars}
  \cup {DenseConstraints(<<Ones(MaxVars)>>, <<"<=", "<=">>, <<>>)}

ShapeSparse ==
  UNION { { SparseConstraints(rows, cols, Ones(nv), <<m, n>>,
                              [k \in 1..ns |-> "<="], [k \in 1..m |-> 1]) :
              rows \in SeqsUpTo({0, MaxCons}, MaxEntries),
              cols \in SeqsUpTo({0, MaxVars}, MaxEntries),
              nv \in 0..MaxEntries,
              ns \in {m, m + 1} } :
          m \in {1, MaxCons}, n \in {MaxVars, MaxVars + 1} }

\* the variables that agree with the objective, if it has a linear part
VarsFor(linear) == DefaultVars(IF IsSome(linear) THEN Len(Get(linear)) ELSE MaxVars)

\* a well-formed quadratic objective, the types of the variables vary
TypedQuadraticProblems ==
  UNION { { Problem("minimize", linear, Some(q), BaseConstraints(n),
                    [i \in 1..n |-> [DefaultVar EXCEPT !.type = types[i]]]) :
              linear \in {None, Some(Ones(n))},
              q \in {DenseQ(OnesMatrix(n, n)), SparseQ(<<0>>, <<0>>, <<2>>, <<n, n>>)},
              types \in [1..n -> TypeValues] } :
          n \in 1..MaxVars }

ShapeProblems ==
  { Problem("minimize", linear, None, constraints, variables) :
      linear \in ShapeLinears, constraints \in ShapeDense, variables \in ShapeVariables }
  \cup
  { Problem("minimize", linear, quadratic, constraints, variables) :
      linear \in ShapeLinears, quadratic \in ShapeQuadratics,
      constraints \in FewDense, variables \in ShapeVariables }
  \cup
  { Problem("minimize", linear, None, constraints, VarsFor(linear)) :
      linear \in ShapeLinears, constraints \in ShapeSparse }
  \cup TypedQuadraticProblems

ValRequests ==
  { Request(TOOL_NAME, problem, None) : problem \in ShapeProblems } \cup FewRequests

InitVal == InitWith(ValRequests)

SpecVal == InitVal /\ [][Next]_vars

(***************************************************************************)
(* index.ts under concurrent tool calls.  The handler is an async          *)
(* function: the code between two awaits runs without interruption, and    *)
(* the calls in flight interleave at the awaits, of which there are two,   *)
(* the one in getHighsInstance (on highsLoader()) and the one on           *)
(* getHighsInstance() itself.  inflight holds, for every call in flight,   *)
(* its request, its position, the loader call it waits for, its local      *)
(* highs and what it answered.                                             *)
(***************************************************************************)
\* the module instance the n-th call of highsLoader resolves to
InstanceOf(n) == "highs" \o ToString(n)

QuadraticOnlyProblem ==
  Problem("minimize", None, Some(DenseQ(<<<<2, 1>>, <<1, 4>>>>)),
          DenseConstraints(<<<<1, 1>>>>, <<">=">>, <<1>>), DefaultVars(2))

ConcurrentRequests == FollowUps \cup {Request(TOOL_NAME, QuadraticOnlyProblem, None)}

Call(req) ==
  [request |-> req, pc |-> "start", loader |-> 0, highs |-> "null",
   solved |-> FALSE, error |-> "none", status |-> <<>>]

\* the variables of the one-call-at-a-time handler
handlerVars == <<request, pc, issues, error, lpString, result, decoded, trace, calls>>

InitConc ==
  /\ inflight \in [1..MaxConcurrent -> {Call(req) : req \in ConcurrentRequests}]
  /\ request = Request(TOOL_NAME, BaseProblem, None)
  /\ pc = "idle"
  /\ issues = <<>>
  /\ error = NoError
  /\ highsInstance = "null"
  /\ loaderCalls = 0
  /\ lpString = <<>>
  /\ result = NoResult
  /\ decoded = NoDecoded
  /\ trace = <<>>
  /\ calls = 0

ArgumentsPass(c) ==
  /\ inflight[c].request.name = TOOL_NAME
  /\ Success(OptimizationArgsSchema(inflight[c].request.arguments))

\* request.params.name !== TOOL_NAME: throw MethodNotFound
BeginUnknownTool(c) ==
  /\ inflight[c].pc = "start"
  /\ inflight[c].request.name # TOOL_NAME
  /\ inflight' = [inflight EXCEPT ![c].pc = "thrown", ![c].error = "MethodNotFound"]
  /\ UNCHANGED <<handlerVars, highsInstance, loaderCalls>>

\* safeParse fails: throw InvalidParams
BeginInvalid(c) ==
  /\ inflight[c].pc = "start"
  /\ inflight[c].request.name = TOOL_NAME
  /\ ~Success(OptimizationArgsSchema(inflight[c].request.arguments))
  /\ inflight' = [inflight EXCEPT ![c].pc = "thrown", ![c].error = "InvalidParams"]
  /\ UNCHANGED <<handlerVars, highsInstance, loaderCalls>>

\* safeParse succeeds and getHighsInstance finds no instance: highsLoader()
\* is called and the call waits for its promise
BeginLoad(c) ==
  /\ inflight[c].pc = "start"
  /\ ArgumentsPass(c)
  /\ highsInstance = "null"
  /\ loaderCalls' = loaderCalls + 1
  /\ inflight' = [inflight EXCEPT ![c].pc = "loading", ![c].loader = loaderCalls + 1]
  /\ UNCHANGED <<handlerVars, highsInstance>>

\* safeParse succeeds and getHighsInstance returns the instance it finds
BeginCached(c) ==
  /\ inflight[c].pc = "start"
  /\ ArgumentsPass(c)
  /\ highsInstance # "null"
  /\ inflight' = [inflight EXCEPT ![c].pc = "ready", ![c].highs = highsInstance]
  /\ UNCHANGED <<handlerVars, highsInstance, loaderCalls>>

\* the promise of highsLoader() resolves: highsInstance = <the module>;
\* return highsInstance
LoaderResolved(c) ==
  /\ inflight[c].pc = "loading"
  /\ highsInstance' = InstanceOf(inflight[c].loader)
  /\ inflight' = [inflight EXCEPT ![c].pc = "ready",
                                  ![c].highs = InstanceOf(inflight[c].loader)]
  /\ UNCHANGED <<handlerVars, loaderCalls>>

\* encode throws: InternalError, no solve call
FinishEncodeThrows(c) ==
  /\ inflight[c].pc = "ready"
  /\ encodeThrows(inflight[c].request.arguments.problem)
  /\ inflight' = [inflight EXCEPT ![c].pc = "thrown", ![c].error = "InternalError"]
  /\ UNCHANGED <<handlerVars, highsInstance, loaderCalls>>

\* highs.solve throws: InternalError
FinishSolveThrows(c) ==
  /\ inflight[c].pc = "ready"
  /\ ~encodeThrows(inflight[c].request.arguments.problem)
  /\ inflight' = [inflight EXCEPT ![c].pc = "thrown", ![c].error = "InternalError",
                                  ![c].solved = TRUE]
  /\ UNCHANGED <<handlerVars, highsInstance, loaderCalls>>

\* encode, highs.solve and decode: the call returns the decoded result
FinishReturn(c) ==
  /\ inflight[c].pc = "ready"
  /\ ~encodeThrows(inflight[c].request.arguments.problem)
  /\ LET problem == inflight[c].request.arguments.problem
     IN \E res \in SolverResults(encode(problem)) :
          inflight' = [inflight EXCEPT ![c].pc = "returned", ![c].solved = TRUE,
                                       ![c].status = decode(res, problem).status]
  /\ UNCHANGED <<handlerVars, highsInstance, loaderCalls>>

NextConc ==
  \E c \in 1..MaxConcurrent :
    \/ BeginUnknownTool(c)
    \/ BeginInvalid(c)
    \/ BeginLoad(c)
    \/ BeginCached(c)
    \/ LoaderResolved(c)
    \/ FinishEncodeThrows(c)
    \/ FinishSolveThrows(c)
    \/ FinishReturn(c)

SpecConc == InitConc /\ [][NextConc]_vars

TypeOK ==
  pc \in {"start", "getHighs", "encode", "solve", "decode", "returned", "thrown", "idle"}

(***************************************************************************)
(* What the claims speak of, stated from the request and the outputs.      *)
(***************************************************************************)
TheProblem == request.arguments.problem
Encoded == lpString # <<>>

\* the resolution of a variable's name: the explicit name unless it is
\* absent or empty, else the 1-indexed positional default
ResolvedName(variables, i) ==
  IF variables[i].name = None \/ variables[i].name = Some("")
  THEN "x" \o ToString(i) ELSE variables[i].name[1]
ResolvedNames(variables) == [i \in 1..Len(variables) |-> ResolvedName(variables, i)]

\* the resolution as the specification words it: the explicit name if given
GivenName(variables, i) ==
  IF variables[i].name = None THEN "x" \o ToString(i) ELSE variables[i].name[1]
GivenNames(variables) == [i \in 1..Len(variables) |-> GivenName(variables, i)]

Max(S) == CHOOSE x \in S : \A y \in S : y <= x
Min(S) == CHOOSE x \in S : \A y \in S : x <= y

\* the linear system a constraints value denotes: cell (r, c) of a sparse
\* value is the last stored entry at (r, c), or zero
SystemMatrix(constraints) ==
  IF "dense" \in DOMAIN constraints THEN constraints.dense
  ELSE LET sp == constraints.sparse
       IN [r \in 1..sp.shape[1] |->
            [c \in 1..sp.shape[2] |->
               LET hits == {i \in 1..Len(sp.values) :
                              sp.rows[i] = r - 1 /\ sp.cols[i] = c - 1}
               IN IF hits = {} THEN 0 ELSE sp.values[Max(hits)]]]

SystemRows(constraints) ==
  IF "dense" \in DOMAIN constraints THEN Len(constraints.dense)
  ELSE constraints.sparse.shape[1]

\* the terms of a coefficient row as the format rules give them: the sign
\* apart from the magnitude, no "+" on the first non-zero coefficient
ExpectedTerm(c, name, first) ==
  (IF c < 0 THEN <<"-">> ELSE IF first THEN <<>> ELSE <<"+">>)
  \o (IF c = 1 \/ c = -1 THEN <<name>> ELSE <<ToString(IF c < 0 THEN -c ELSE c), name>>)

ExpectedTerms(coefs, names) ==
  LET nz == {j \in 1..Len(coefs) : coefs[j] # 0}
      upto[j \in 0..Len(coefs)] ==
        IF j = 0 THEN <<>>
        ELSE upto[j-1] \o (IF j \in nz THEN ExpectedTerm(coefs[j], names[j], j = Min(nz))
                           ELSE <<>>)
  IN upto[Len(coefs)]

\* the lines of the text, by section
ObjectiveLine == lpString[2]
ConstraintLine(k) == lpString[3 + k]
BoundsHeading == 4 + SystemRows(TheProblem.constraints)
BoundsLine(i) == lpString[BoundsHeading + i]
TypeLines == SubSeq(lpString, BoundsHeading + Len(TheProblem.variables) + 1, Len(lpString) - 1)
TermsOf(line) == SubSeq(line, 2, Len(line) - 2)

TypeIs(v, t) == v.type = Some(t)
NamesOfType(variables, t, names) ==
  LET upto[i \in 0..Len(variables)] ==
        IF i = 0 THEN <<>>
        ELSE upto[i-1] \o (IF TypeIs(variables[i], t) THEN <<names[i]>> ELSE <<>>)
  IN upto[Len(variables)]

(***************************************************************************)
(* C1: a tool call whose arguments fail validation is answered with an     *)
(* InvalidParams error, and neither encode nor solve nor decode is invoked *)
(* for it; encode is only ever invoked on arguments without any issue.     *)
(***************************************************************************)
ArgumentsInvalid == OptimizationArgsSchema(request.arguments).issues # <<>>
Invoked(op) == \E i \in 1..Len(trace) : trace[i] = op

C1_InvalidNeverEncoded ==
  /\ (request.name = TOOL_NAME /\ pc # "start" /\ ArgumentsInvalid)
       => /\ pc = "thrown"
          /\ error.code = "InvalidParams"
          /\ Len(error.errors) >= 1
          /\ ~Invoked("encode") /\ ~Invoked("solve") /\ ~Invoked("decode")
          /\ lpString = <<>> /\ result = NoResult /\ decoded = NoDecoded
  /\ Invoked("encode") => ~ArgumentsInvalid

C1_Witness ==
  /\ pc = "thrown"
  /\ error.code = "InvalidParams"
  /\ trace = <<"safeParse">>
  /\ Len(error.errors) >= 2
  /\ "dense" \in DOMAIN TheProblem.constraints

(***************************************************************************)
(* C2: exhaustive detection.  A Problem with N structural defects, N >= 1, *)
(* gets a diagnostic list of exactly N entries.  The defects are counted   *)
(* rule by rule: no objective; a quadratic term with a non-continuous      *)
(* variable; linear and quadratic of different sizes; each defect of the   *)
(* quadratic term; each dense row of the wrong length; for sparse          *)
(* constraints the shape, the lengths of the three arrays and each index   *)
(* outside the shape; the lengths of sense and of rhs; the length of       *)
(* variables; an empty matrix; an empty variables array.                   *)
(***************************************************************************)
Count(b) == IF b THEN 1 ELSE 0

QuadraticDefects(q) ==
  IF q.format = "dense"
  THEN Count(Len(q.matrix) = 0 \/ \E i \in 1..Len(q.matrix) : Len(q.matrix[i]) # Len(q.matrix))
  ELSE Count(q.shape[1] # q.shape[2])
       + Count(Len(q.rows) # Len(q.values) \/ Len(q.cols) # Len(q.values))
       + Cardinality({i \in 1..Len(q.rows) : q.rows[i] >= q.shape[1]})
       + Cardinality({i \in 1..Len(q.cols) : q.cols[i] >= q.shape[2]})

StructuralDefects(p) ==
  LET o == p.objective
      hasL == o.linear # None
      hasQ == o.quadratic # None
      known == hasL \/ hasQ
      numVars == IF hasL THEN Len(o.linear[1])
                 ELSE IF o.quadratic[1].format = "dense" THEN Len(o.quadratic[1].matrix)
                 ELSE o.quadratic[1].shape[1]
      c == p.constraints
      dense == "dense" \in DOMAIN c
      numConstraints == IF dense THEN Len(c.dense) ELSE c.sparse.shape[1]
  IN Count(~known)
     + Count(hasQ /\ \E i \in 1..Len(p.variables) :
                       p.variables[i].type \in {Some("int"), Some("bin")})
     + Count(hasL /\ hasQ
             /\ Len(o.linear[1]) # (IF o.quadratic[1].format = "dense"
                                    THEN Len(o.quadratic[1].matrix)
                                    ELSE o.quadratic[1].shape[1]))
     + (IF hasQ THEN QuadraticDefects(o.quadratic[1]) ELSE 0)
     + (IF dense
        THEN Count(Len(c.dense) = 0)
             + (IF known THEN Cardinality({k \in 1..Len(c.dense) : Len(c.dense[k]) # numVars})
                ELSE 0)
        ELSE Count(known /\ c.sparse.shape[2] # numVars)
             + Count(Len(c.sparse.rows) # Len(c.sparse.values)
                     \/ Len(c.sparse.cols) # Len(c.sparse.values))
             + Cardinality({i \in 1..Len(c.sparse.rows) : c.sparse.rows[i] >= c.sparse.shape[1]})
             + Cardinality({i \in 1..Len(c.sparse.cols) : c.sparse.cols[i] >= c.sparse.shape[2]}))
     + Count(Len(c.sense) # numConstraints)
     + Count(Len(c.rhs) # numConstraints)
     + Count(Len(p.variables) = 0)
     + Count(known /\ Len(p.variables) # numVars)

\* the calls whose only possible defects are the structural ones
StructuralOnly ==
  /\ request.name = TOOL_NAME
  /\ request.arguments.options = None
  /\ TheProblem.sense \in {"minimize", "maximize"}

C2_ExactlyNDiagnostics ==
  (pc = "thrown" /\ StructuralOnly /\ StructuralDefects(TheProblem) >= 1)
    => /\ error.code = "InvalidParams"
       /\ Len(error.errors) = StructuralDefects(TheProblem)

\* an objective with neither part, and sense and rhs of the wrong length:
\* three defects, and the two diagnostics are both about the objective
C2_DefectsUnderReported ==
  /\ pc = "thrown"
  /\ StructuralOnly
  /\ TheProblem.objective = [linear |-> None, quadratic |-> None]
  /\ TheProblem.constraints = DenseConstraints(<<Ones(MaxVars)>>, <<"<=", "<=">>, <<>>)
  /\ Len(TheProblem.variables) = 1
  /\ StructuralDefects(TheProblem) = 3
  /\ error.errors =
       <<"problem.objective: At least one of 'linear' or 'quadratic' must be provided. When both are present, dimensions must match.",
         "problem.objective: Cannot determine number of variables from objective">>

(***************************************************************************)
(* C3: round trip.  For a valid Problem with dense constraints, when the   *)
(* solver reports Optimal and returns, under the name each variable has in *)
(* the Bounds section of the encoded text, a column with a Primal value,   *)
(* the decoded solution holds at every position that variable's Primal.    *)
(***************************************************************************)
WrittenNames == LpColumnNames(lpString)

SolverAnswersByName ==
  /\ result.Status = Optimal
  /\ Len(WrittenNames) = Len(TheProblem.variables)
  /\ \A i \in 1..Len(WrittenNames) :
       /\ WrittenNames[i] \in DOMAIN result.Columns
       /\ "Primal" \in DOMAIN result.Columns[WrittenNames[i]]

C3_RoundTrip ==
  (pc = "returned" /\ "dense" \in DOMAIN TheProblem.constraints /\ SolverAnswersByName)
    => /\ Len(decoded.solution) = Len(TheProblem.variables)
       /\ \A i \in 1..Len(TheProblem.variables) :
            decoded.solution[i] = result.Columns[WrittenNames[i]].Primal

C3_Witness ==
  /\ pc = "returned"
  /\ "dense" \in DOMAIN TheProblem.constraints
  /\ SolverAnswersByName
  /\ Len(TheProblem.variables) = 2
  /\ TheProblem.variables[1].name = Some("y")
  /\ TheProblem.variables[2].name = None
  /\ decoded.solution[1] # decoded.solution[2]
  /\ decoded.solution[2] # 0

(***************************************************************************)
(* C4: one name per variable everywhere.  As claimed: the objective, every *)
(* constraint line, the Bounds section, the General and Binary sections    *)
(* and the decoder's column lookup all use, for variable i, its explicit   *)
(* name if given and x<i+1> otherwise.  As amended: its explicit name if   *)
(* given and not empty, and x<i+1> otherwise.                              *)
(***************************************************************************)
NumberTokens == {ToString(k) : k \in 0..(MaxCoef + 2)}
IsNameToken(t) == t \notin ({"+", "-"} \cup NumberTokens)
TermNames(terms) == SelectSeq(terms, IsNameToken)

\* the names of the variables with a non-zero coefficient, in order
NamesOfNonZero(coefs, names) ==
  LET upto[j \in 0..Len(coefs)] ==
        IF j = 0 THEN <<>>
        ELSE upto[j-1] \o (IF coefs[j] # 0 THEN <<names[j]>> ELSE <<>>)
  IN upto[Len(coefs)]

HeadingNames(heading) ==
  IF \E k \in 1..Len(TypeLines) : TypeLines[k] = <<heading>>
  THEN TypeLines[(CHOOSE k \in 1..Len(TypeLines) : TypeLines[k] = <<heading>>) + 1]
  ELSE <<>>

EncoderUses(names) ==
  Encoded =>
    /\ TermNames(SubSeq(ObjectiveLine, 2, Len(ObjectiveLine)))
         = NamesOfNonZero(TheProblem.objective.linear[1], names)
    /\ \A k \in 1..SystemRows(TheProblem.constraints) :
         TermNames(TermsOf(ConstraintLine(k)))
           = NamesOfNonZero(SystemMatrix(TheProblem.constraints)[k], names)
    /\ WrittenNames = names
    /\ HeadingNames("General") = NamesOfType(TheProblem.variables, "int", names)
    /\ HeadingNames("Binary") = NamesOfType(TheProblem.variables, "bin", names)

DecoderUses(names) ==
  (pc = "returned" /\ result.Status = Optimal) =>
    \A i \in 1..Len(TheProblem.variables) :
      decoded.solution[i] = (IF names[i] \in DOMAIN result.Columns
                                /\ "Primal" \in DOMAIN result.Columns[names[i]]
                             THEN result.Columns[names[i]].Primal ELSE 0)

C4_GivenNameEverywhere ==
  /\ EncoderUses(GivenNames(TheProblem.variables))
  /\ DecoderUses(GivenNames(TheProblem.variables))

C4_ResolvedNameEverywhere ==
  /\ EncoderUses(ResolvedNames(TheProblem.variables))
  /\ DecoderUses(ResolvedNames(TheProblem.variables))

C4_Witness ==
  /\ pc = "returned"
  /\ result.Status = Optimal
  /\ Len(TheProblem.variables) = 2
  /\ TheProblem.variables[1].name = Some("")
  /\ TheProblem.variables[2].name = Some("y")
  /\ WrittenNames = <<"x1", "y">>
  /\ DOMAIN result.Columns = {"x1", "y"}
  /\ decoded.solution[1] # decoded.solution[2]

(***************************************************************************)
(* C5: a sparse and a dense representation of the same linear system, with *)
(* the same sense and rhs, are encoded to the same constraint lines, and   *)
(* no term is written for a coordinate the sparse representation does not  *)
(* store.                                                                  *)
(***************************************************************************)
IsSparseRequest == "sparse" \in DOMAIN TheProblem.constraints

\* the same problem with its constraints written as a dense matrix
DenseTwin ==
  [TheProblem EXCEPT
     !.constraints = DenseConstraints(SystemMatrix(TheProblem.constraints),
                                      TheProblem.constraints.sense,
                                      TheProblem.constraints.rhs)]

ConstraintLinesOf(lp, m) == SubSeq(lp, 4, 3 + m)

StoredAt(sp, r, c) ==
  \E i \in 1..Len(sp.values) : sp.rows[i] = r - 1 /\ sp.cols[i] = c - 1

C5_SparseDenseSameLines ==
  (Encoded /\ IsSparseRequest) =>
    LET sp == TheProblem.constraints.sparse
        m == sp.shape[1]
        names == ResolvedNames(TheProblem.variables)
    IN /\ ConstraintLinesOf(lpString, m) = ConstraintLinesOf(encode(DenseTwin), m)
       /\ \A k \in 1..m : \A c \in 1..sp.shape[2] :
            (\E t \in 1..Len(TermsOf(ConstraintLine(k))) :
               TermsOf(ConstraintLine(k))[t] = names[c])
              => StoredAt(sp, k, c)

C5_Witness ==
  /\ Encoded
  /\ IsSparseRequest
  /\ TheProblem.constraints.sparse.shape = <<2, 2>>
  /\ TheProblem.constraints.sparse.rows = <<0, 0>>
  /\ TheProblem.constraints.sparse.cols = <<1, 1>>
  /\ TheProblem.constraints.sparse.values = <<1, -2>>
  /\ ConstraintLine(1) = <<"c1:", "-", "2", "x2", ">=", "-1">>
  /\ Len(ConstraintLine(2)) = 3

(***************************************************************************)
(* C6: term formatting in the objective and in every constraint line.  A   *)
(* coefficient 1 is written as the bare name, -1 as the negated bare name, *)
(* any other non-zero coefficient as its magnitude and the name, a zero    *)
(* coefficient as nothing, and the first term written never carries "+".   *)
(***************************************************************************)
ObjectiveTermsWritten == SubSeq(ObjectiveLine, 2, Len(ObjectiveLine))

C6_TermFormatting ==
  Encoded =>
    LET names == ResolvedNames(TheProblem.variables)
        system == SystemMatrix(TheProblem.constraints)
    IN /\ ObjectiveTermsWritten = ExpectedTerms(TheProblem.objective.linear[1], names)
       /\ ObjectiveTermsWritten # <<>> => ObjectiveTermsWritten[1] # "+"
       /\ \A k \in 1..SystemRows(TheProblem.constraints) :
            /\ TermsOf(ConstraintLine(k)) = ExpectedTerms(system[k], names)
            /\ TermsOf(ConstraintLine(k)) # <<>> => TermsOf(ConstraintLine(k))[1] # "+"

C6_Witness ==
  /\ Encoded
  /\ "dense" \in DOMAIN TheProblem.constraints
  /\ Len(TheProblem.constraints.dense) = 2
  /\ TheProblem.constraints.dense[1] = <<0, 1>>
  /\ ConstraintLine(1)[2] = "x2"
  /\ ConstraintLine(2) = <<"c2:", "x1", "+", "x2", "<=", "1">>

(***************************************************************************)
(* C7: the sections of the encoder output, in their fixed order and        *)
(* casing.  Minimize or Maximize by sense with the objective line,         *)
(* Subject To with the constraint lines, Bounds with the bound lines,      *)
(* General only if a variable is int, Binary only if a variable is bin,    *)
(* and End as the last line; no heading occurs twice.                      *)
(***************************************************************************)
HasType(t) == \E i \in 1..Len(TheProblem.variables) : TypeIs(TheProblem.variables[i], t)
LinesEqual(line) == {k \in 1..Len(lpString) : lpString[k] = line}

C7_SectionOrder ==
  Encoded =>
    LET m == SystemRows(TheProblem.constraints)
        n == Len(TheProblem.variables)
        g == IF HasType("int") THEN 2 ELSE 0
        b == IF HasType("bin") THEN 2 ELSE 0
    IN /\ Len(lpString) = 5 + m + n + g + b
       /\ LinesEqual(<<IF TheProblem.sense = "minimize" THEN "Minimize" ELSE "Maximize">>) = {1}
       /\ LinesEqual(<<IF TheProblem.sense = "minimize" THEN "Maximize" ELSE "Minimize">>) = {}
       /\ lpString[2][1] = "obj:"
       /\ LinesEqual(<<"Subject", "To">>) = {3}
       /\ LinesEqual(<<"Bounds">>) = {4 + m}
       /\ LinesEqual(<<"General">>) = (IF g = 2 THEN {5 + m + n} ELSE {})
       /\ LinesEqual(<<"Binary">>) = (IF b = 2 THEN {5 + m + n + g} ELSE {})
       /\ LinesEqual(<<"End">>) = {Len(lpString)}

C7_Witness ==
  /\ Encoded
  /\ TheProblem.sense = "maximize"
  /\ Len(TheProblem.variables) = 2
  /\ TypeIs(TheProblem.variables[1], "bin")
  /\ TypeIs(TheProblem.variables[2], "int")
  /\ lpString[1] = <<"Maximize">>
  /\ lpString[8] = <<"General">>
  /\ lpString[10] = <<"Binary">>
  /\ lpString[12] = <<"End">>

(***************************************************************************)
(* C8: the constraints section has exactly one line per constraint, in     *)
(* order: the label c<k>: counted from 1, the terms of row k, then the     *)
(* sense and the rhs of position k; an all-zero row still has its line,    *)
(* with no term.                                                           *)
(***************************************************************************)
IsZeroRow(row) == \A j \in 1..Len(row) : row[j] = 0

C8_OneLinePerConstraint ==
  Encoded =>
    LET m == SystemRows(TheProblem.constraints)
        system == SystemMatrix(TheProblem.constraints)
    IN /\ lpString[3] = <<"Subject", "To">>
       /\ lpString[4 + m] = <<"Bounds">>
       /\ \A k \in 1..m :
            LET line == ConstraintLine(k)
            IN /\ Len(line) >= 3
               /\ line[1] = "c" \o ToString(k) \o ":"
               /\ line[Len(line) - 1] = TheProblem.constraints.sense[k]
               /\ line[Len(line)] = ToString(TheProblem.constraints.rhs[k])
               /\ IsZeroRow(system[k]) <=> Len(line) = 3

C8_Witness ==
  /\ Encoded
  /\ "dense" \in DOMAIN TheProblem.constraints
  /\ Len(TheProblem.constraints.dense) = 2
  /\ IsZeroRow(TheProblem.constraints.dense[1])
  /\ ConstraintLine(1) = <<"c1:", "=", "-1">>
  /\ ConstraintLine(2) = <<"c2:", "x1", "+", "x2", "<=", "1">>

(***************************************************************************)
(* C9: the Bounds section has one line per variable.  With lb defaulting   *)
(* to 0 and ub to +infinity, or to 1 for a binary variable, and an         *)
(* explicit lb or ub taking precedence: "name free" when lb is -infinity   *)
(* and ub is +infinity, "lb <= name <= +inf" when only ub is +infinity,    *)
(* "-inf <= name <= ub" when only lb is -infinity, and                     *)
(* "lb <= name <= ub" otherwise.                                           *)
(***************************************************************************)
ResolvedLb(v) == IF v.lb = None THEN Fin(0) ELSE v.lb[1]
ResolvedUb(v) ==
  IF v.ub # None THEN v.ub[1] ELSE IF TypeIs(v, "bin") THEN Fin(1) ELSE Infinity

ExpectedBoundsLine(v, name) ==
  LET lb == ResolvedLb(v)
      ub == ResolvedUb(v)
  IN CASE lb = NegInfinity /\ ub = Infinity -> <<name, "free">>
       [] lb # NegInfinity /\ ub = Infinity -> <<BoundStr(lb), "<=", name, "<=", "+inf">>
       [] lb = NegInfinity /\ ub # Infinity -> <<"-inf", "<=", name, "<=", BoundStr(ub)>>
       [] OTHER -> <<BoundStr(lb), "<=", name, "<=", BoundStr(ub)>>

C9_BoundsLines ==
  Encoded =>
    LET n == Len(TheProblem.variables)
    IN /\ lpString[BoundsHeading] = <<"Bounds">>
       /\ Len(lpString[BoundsHeading + n + 1]) = 1
       /\ \A i \in 1..n :
            BoundsLine(i) = ExpectedBoundsLine(TheProblem.variables[i],
                                               ResolvedName(TheProblem.variables, i))

C9_Witness ==
  /\ Encoded
  /\ Len(TheProblem.variables) = 2
  /\ TheProblem.variables[2] = [name |-> None, lb |-> Some(Fin(-5)), ub |-> Some(Fin(9)),
                                type |-> Some("bin")]
  /\ BoundsLine(1) = <<"0", "<=", "x1", "<=", "+inf">>
  /\ BoundsLine(2) = <<"-5", "<=", "x2", "<=", "9">>

(***************************************************************************)
(* C10: the integrality sections.  The names of the int variables are      *)
(* listed in variable order under General and those of the bin variables   *)
(* under Binary; a heading is left out exactly when its list is empty, and *)
(* a continuous or untyped variable is listed under neither.               *)
(***************************************************************************)
ExpectedTypeLines ==
  LET names == ResolvedNames(TheProblem.variables)
      ints == NamesOfType(TheProblem.variables, "int", names)
      bins == NamesOfType(TheProblem.variables, "bin", names)
  IN (IF ints = <<>> THEN <<>> ELSE << <<"General">>, ints >>)
     \o (IF bins = <<>> THEN <<>> ELSE << <<"Binary">>, bins >>)

C10_IntegralitySections ==
  Encoded => TypeLines = ExpectedTypeLines

C10_Witness ==
  /\ Encoded
  /\ Len(TheProblem.variables) = 2
  /\ TheProblem.variables[1].type = Some("int")
  /\ TheProblem.variables[2].type = Some("cont")
  /\ TheProblem.variables[1].name = Some("v1")
  /\ TypeLines = << <<"General">>, <<"v1">> >>

(***************************************************************************)
(* C11: the dense quadratic term in the objective line.  When the          *)
(* objective has a dense quadratic term Q, the objective line ends with    *)
(* "[ ... ] / 2", in which each diagonal entry contributes Q[i][i] xi^2    *)
(* and each unordered off-diagonal pair contributes (Q[i][j] + Q[j][i])    *)
(* xi * xj once; with linear absent the line is "obj:" and the bracketed   *)
(* expression only.                                                        *)
(***************************************************************************)
HasDenseQuadratic ==
  /\ TheProblem.objective.quadratic # None
  /\ TheProblem.objective.quadratic[1].format = "dense"

\* one term of the bracketed expression: the coefficient, unless it is 1,
\* and the variables
QuadraticTerm(c, factors) ==
  IF c = 0 THEN <<>> ELSE (IF c = 1 THEN <<>> ELSE <<ToString(c)>>) \o factors

\* the terms for the pairs i <= j, row by row, joined by "+"
ExpectedQuadraticTerms(Q, names) ==
  LET n == Len(Q)
      term(i, j) ==
        IF i = j THEN QuadraticTerm(Q[i][i], <<names[i] \o "^2">>)
        ELSE QuadraticTerm(Q[i][j] + Q[j][i], <<names[i], "*", names[j]>>)
      join(acc, t) == IF t = <<>> THEN acc
                      ELSE IF acc = <<>> THEN t ELSE acc \o <<"+">> \o t
      upto[k \in 0..(n * n)] ==
        IF k = 0 THEN <<>>
        ELSE LET i == ((k - 1) \div n) + 1
                 j == ((k - 1) % n) + 1
             IN IF i <= j THEN join(upto[k-1], term(i, j)) ELSE upto[k-1]
  IN upto[n * n]

ExpectedQuadraticObjectiveLine ==
  LET names == ResolvedNames(TheProblem.variables)
      linear == IF TheProblem.objective.linear = None THEN <<>>
                ELSE ExpectedTerms(TheProblem.objective.linear[1], names)
  IN <<"obj:">> \o linear \o (IF linear = <<>> THEN <<>> ELSE <<"+">>)
     \o <<"[">> \o ExpectedQuadraticTerms(TheProblem.objective.quadratic[1].matrix, names)
     \o <<"]", "/", "2">>

C11_DenseQuadraticRendered ==
  (HasDenseQuadratic /\ Invoked("encode"))
    => /\ Encoded
       /\ ObjectiveLine = ExpectedQuadraticObjectiveLine

\* the example of the claim with linear [1, 2]: the text has no bracket
C11_QuadraticDropped ==
  /\ Encoded
  /\ TheProblem.objective.linear = Some(<<1, 2>>)
  /\ TheProblem.objective.quadratic = Some(DenseQ(<<<<2, 1>>, <<1, 4>>>>))
  /\ ExpectedQuadraticObjectiveLine =
       <<"obj:", "x1", "+", "2", "x2", "+",
         "[", "2", "x1^2", "+", "2", "x1", "*", "x2", "+", "4", "x2^2", "]", "/", "2">>
  /\ ObjectiveLine = <<"obj:", "x1", "+", "2", "x2">>

(***************************************************************************)
(* C12: transposition.  For every dense quadratic matrix Q, encode of the  *)
(* Problem with Q and encode of the same Problem with the transpose of Q   *)
(* render the same objective text.                                         *)
(***************************************************************************)
Transpose(Q) == [i \in 1..Len(Q) |-> [j \in 1..Len(Q) |-> Q[j][i]]]

TransposedTwin ==
  [TheProblem EXCEPT
     !.objective.quadratic = Some(DenseQ(Transpose(TheProblem.objective.quadratic[1].matrix)))]

C12_TransposeSameObjective ==
  (HasDenseQuadratic /\ Invoked("encode"))
    => /\ Encoded
       /\ ~encodeThrows(TransposedTwin)
       /\ IF encodeThrows(TransposedTwin) THEN FALSE
          ELSE ObjectiveLine = encode(TransposedTwin)[2]

\* the form x1^2 + 2 x1 x2 + 2 x2^2 stored in the upper triangle, and no
\* linear part: neither it nor its transpose gets any text
C12_NoTextForEither ==
  /\ pc = "thrown"
  /\ Invoked("encode")
  /\ TheProblem.objective.linear = None
  /\ TheProblem.objective.quadratic = Some(DenseQ(<<<<2, 2>>, <<0, 4>>>>))
  /\ Transpose(TheProblem.objective.quadratic[1].matrix) = <<<<2, 0>>, <<2, 4>>>>
  /\ encodeThrows(TransposedTwin)
  /\ lpString = <<>>

(***************************************************************************)
(* C13: decoding an Optimal result.  solution and variable_duals have one  *)
(* entry per Problem variable, in variable order: the Primal resp. Dual of *)
(* the column stored under the variable's resolved name, and 0 when the    *)
(* column or the field is missing; dual_solution has one entry per solver  *)
(* row, in row order, 0 where Dual is absent; objective_value is the       *)
(* solver's.                                                               *)
(***************************************************************************)
FieldOrZero(columns, name, field) ==
  IF name \in DOMAIN columns /\ field \in DOMAIN columns[name]
  THEN columns[name][field] ELSE 0

C13_DecodeOptimal ==
  (pc = "returned" /\ result.Status = Optimal) =>
    LET n == Len(TheProblem.variables)
        names == ResolvedNames(TheProblem.variables)
    IN /\ decoded.solution =
            [i \in 1..n |-> FieldOrZero(result.Columns, names[i], "Primal")]
       /\ decoded.variable_duals =
            [i \in 1..n |-> FieldOrZero(result.Columns, names[i], "Dual")]
       /\ decoded.dual_solution =
            [r \in 1..Len(result.Rows) |->
               IF "Dual" \in DOMAIN result.Rows[r] THEN result.Rows[r].Dual ELSE 0]
       /\ decoded.objective_value = result.ObjectiveValue

\* two variables and two rows; the first column has no Dual, the first row
\* neither, and the values of the second are passed on
C13_Witness ==
  /\ pc = "returned"
  /\ result.Status = Optimal
  /\ Len(TheProblem.variables) = 2
  /\ Len(result.Rows) = 2
  /\ DOMAIN result.Columns = {"x1", "x2"}
  /\ "Dual" \notin DOMAIN result.Columns["x1"]
  /\ "Dual" \notin DOMAIN result.Rows[1]
  /\ decoded.variable_duals = <<0, result.Columns["x2"].Dual>>
  /\ decoded.dual_solution = <<0, result.Rows[2].Dual>>
  /\ decoded.solution = <<result.Columns["x1"].Primal, result.Columns["x2"].Primal>>
  /\ decoded.variable_duals[2] # decoded.solution[2]

\* a column without its Primal, and a column left out
C13_WitnessMissing ==
  /\ pc = "returned"
  /\ result.Status = Optimal
  /\ Len(TheProblem.variables) = 2
  /\ DOMAIN result.Columns = {"x1"}
  /\ "Primal" \notin DOMAIN result.Columns["x1"]
  /\ decoded.solution = <<0, 0>>
  /\ decoded.variable_duals = <<result.Columns["x1"].Dual, 0>>
  /\ decoded.variable_duals[1] # 0

(***************************************************************************)
(* C14: decoding a result whose status is not "Optimal".  The status is    *)
(* the solver's status in lower case with every maximal run of whitespace  *)
(* replaced by one underscore, the message is "Problem status: " followed  *)
(* by the solver's status as it came, and objective_value is passed        *)
(* through, also when it is infinite or not a number.                      *)
(***************************************************************************)
\* the positions that survive: every character that is not whitespace, and
\* the first character of every run of whitespace
KeptPositions(str) ==
  {i \in 1..Len(str) : ~IsSpace(str[i]) \/ i = 1 \/ ~IsSpace(str[i-1])}

NormalizedStatus(str) ==
  LET kept == KeptPositions(str)
      nth[k \in 1..Cardinality(kept)] ==
        CHOOSE i \in kept : Cardinality({j \in kept : j < i}) = k - 1
  IN [k \in 1..Cardinality(kept) |->
        IF IsSpace(str[nth[k]]) THEN "_" ELSE LowerChar(str[nth[k]])]

C14_DecodeNonOptimal ==
  (pc = "returned" /\ result.Status # Optimal) =>
    /\ DOMAIN decoded = {"status", "message", "objective_value"}
    /\ decoded.status = NormalizedStatus(result.Status)
    /\ decoded.message = ProblemStatusPrefix \o result.Status
    /\ decoded.objective_value = result.ObjectiveValue
    /\ result.Status = TimeLimitReached =>
         decoded.status = <<"t", "i", "m", "e", "_", "l", "i", "m", "i", "t", "_",
                            "r", "e", "a", "c", "h", "e", "d">>

C14_Witness ==
  /\ pc = "returned"
  /\ result.Status = NotSetSpaced
  /\ result.ObjectiveValue = NaN
  /\ decoded.status = <<"n", "o", "t", "_", "s", "e", "t">>
  /\ decoded.message[17] = "N"
  /\ decoded.objective_value = NaN

(***************************************************************************)
(* C15: the order of a validated call.  For every tool call whose          *)
(* arguments pass validation the handler performs encode, then exactly one *)
(* solve, then decode, in that order, and returns the decoded result       *)
(* whatever status the solver reports; a non-optimal status is returned,   *)
(* not raised.  (A solve call that itself throws reports no status.)       *)
(***************************************************************************)
IsStep(op) == op \in {"encode", "solve", "decode"}
Steps == SelectSeq(trace, IsStep)
Validated == request.name = TOOL_NAME /\ pc # "start" /\ ~ArgumentsInvalid

C15_EncodeSolveDecode ==
  /\ \E k \in 0..3 : Steps = SubSeq(<<"encode", "solve", "decode">>, 1, k)
  /\ pc = "returned" =>
       /\ Validated
       /\ Steps = <<"encode", "solve", "decode">>
       /\ error = NoError
       /\ decoded = decode(result, TheProblem)
  /\ (Validated /\ pc = "thrown") => Steps = <<"encode", "solve">>

\* a validated call that ends in an error before any solve call
C15_ThrownBeforeSolve ==
  /\ Validated
  /\ pc = "thrown"
  /\ error.code = "InternalError"
  /\ Steps = <<"encode">>
  /\ TheProblem.objective.linear = None
  /\ TheProblem.objective.quadratic = Some(DenseQ(<<<<1>>>>))

(***************************************************************************)
(* The diagnostics of one validation call, for the claims about the        *)
(* validator's rules.  A Problem has a sense of minimize or maximize.      *)
(***************************************************************************)
Checked ==
  /\ request.name = TOOL_NAME
  /\ pc # "start"
  /\ TheProblem.sense \in {"minimize", "maximize"}

NumVarsKnown ==
  TheProblem.objective.linear # None \/ TheProblem.objective.quadratic # None

\* numVars: the length of linear, or the dimension of the quadratic matrix
\* when linear is absent
ClaimNumVars ==
  IF TheProblem.objective.linear # None THEN Len(TheProblem.objective.linear[1])
  ELSE IF TheProblem.objective.quadratic[1].format = "dense"
       THEN Len(TheProblem.objective.quadratic[1].matrix)
       ELSE TheProblem.objective.quadratic[1].shape[1]

ClaimNumConstraints ==
  IF "dense" \in DOMAIN TheProblem.constraints THEN Len(TheProblem.constraints.dense)
  ELSE TheProblem.constraints.sparse.shape[1]

AtPath(path) == {i \in 1..Len(issues) : issues[i].path = path}
OnlyAt(path, message) ==
  /\ Cardinality(AtPath(path)) = 1
  /\ \A i \in AtPath(path) : issues[i].message = message

(***************************************************************************)
(* C16: dense rows.  Validation reports one diagnostic for every row whose *)
(* length differs from numVars, naming the row's index, its length and     *)
(* numVars, and none for a row of length numVars.                          *)
(***************************************************************************)
DenseRowMessage(k, actual, expected) ==
  "Constraint row " \o ToString(k) \o " has " \o ToString(actual)
  \o " coefficients but expected " \o ToString(expected)
  \o " (matching the number of variables in the objective function)"

C16_DenseRowDiagnostics ==
  (Checked /\ NumVarsKnown /\ "dense" \in DOMAIN TheProblem.constraints) =>
    \A k \in 1..Len(TheProblem.constraints.dense) :
      LET row == TheProblem.constraints.dense[k]
          path == "problem.constraints.dense." \o ToString(k - 1)
      IN IF Len(row) # ClaimNumVars
         THEN OnlyAt(path, DenseRowMessage(k - 1, Len(row), ClaimNumVars))
         ELSE AtPath(path) = {}

C16_Witness ==
  /\ Checked
  /\ pc = "thrown"
  /\ TheProblem.objective.linear = Some(<<1, 1>>)
  /\ "dense" \in DOMAIN TheProblem.constraints
  /\ Len(TheProblem.constraints.dense) = 2
  /\ Len(TheProblem.constraints.dense[1]) = 3
  /\ Len(TheProblem.constraints.dense[2]) = 1
  /\ error.errors =
       <<"problem.constraints.dense.0: Constraint row 0 has 3 coefficients but expected 2 (matching the number of variables in the objective function)",
         "problem.constraints.dense.1: Constraint row 1 has 1 coefficients but expected 2 (matching the number of variables in the objective function)">>

(***************************************************************************)
(* C17: sense and rhs.  Validation reports a diagnostic when the length of *)
(* constraints.sense differs from the number of constraints and,           *)
(* separately, one when the length of constraints.rhs differs from it,     *)
(* the number of constraints being the row count of the dense matrix or    *)
(* shape[0] of the sparse one; each names the actual and the expected      *)
(* count.                                                                  *)
(***************************************************************************)
SenseMessage(actual, expected) ==
  "Constraint sense array has " \o ToString(actual) \o " elements but expected "
  \o ToString(expected) \o " (matching the number of constraints)"
RhsMessage(actual, expected) ==
  "Constraint rhs array has " \o ToString(actual) \o " elements but expected "
  \o ToString(expected) \o " (matching the number of constraints)"

C17_SenseRhsDiagnostics ==
  Checked =>
    LET c == TheProblem.constraints
    IN /\ IF Len(c.sense) # ClaimNumConstraints
          THEN OnlyAt("problem.constraints.sense",
                      SenseMessage(Len(c.sense), ClaimNumConstraints))
          ELSE AtPath("problem.constraints.sense") = {}
       /\ IF Len(c.rhs) # ClaimNumConstraints
          THEN OnlyAt("problem.constraints.rhs",
                      RhsMessage(Len(c.rhs), ClaimNumConstraints))
          ELSE AtPath("problem.constraints.rhs") = {}

\* sense and rhs of the wrong length, and no diagnostic about either
C17_SenseRhsUnreported ==
  /\ Checked
  /\ pc = "thrown"
  /\ ~NumVarsKnown
  /\ "dense" \in DOMAIN TheProblem.constraints
  /\ Len(TheProblem.constraints.dense) = 1
  /\ Len(TheProblem.constraints.sense) = 2
  /\ Len(TheProblem.constraints.rhs) = 0
  /\ AtPath("problem.constraints.sense") = {}
  /\ AtPath("problem.constraints.rhs") = {}

(***************************************************************************)
(* C18: variables.  Validation reports a diagnostic, naming the actual and *)
(* the expected count, exactly when the length of variables differs from   *)
(* numVars.                                                                *)
(***************************************************************************)
VariablesMessage(actual, expected) ==
  "Variables array has " \o ToString(actual) \o " elements but expected "
  \o ToString(expected) \o " (matching the number of variables in the objective function)"

\* every diagnostic about the count of variables, whatever its numbers
VariablesMessages ==
  {VariablesMessage(a, e) : a \in 0..(MaxVars + 2), e \in 0..(MaxVars + 2)}
VariableCountIssues == {i \in 1..Len(issues) : issues[i].message \in VariablesMessages}

C18_VariablesDiagnostic ==
  (Checked /\ NumVarsKnown) =>
    IF Len(TheProblem.variables) # ClaimNumVars
    THEN /\ Cardinality(VariableCountIssues) = 1
         /\ \A i \in VariableCountIssues :
              /\ issues[i].path = "problem.variables"
              /\ issues[i].message = VariablesMessage(Len(TheProblem.variables), ClaimNumVars)
    ELSE VariableCountIssues = {}

\* linear absent: numVars is the dimension of the quadratic matrix
C18_Witness ==
  /\ Checked
  /\ pc = "thrown"
  /\ TheProblem.objective.linear = None
  /\ TheProblem.objective.quadratic = Some(DenseQ(<<<<1, 1>>, <<1, 1>>>>))
  /\ Len(TheProblem.variables) = 3
  /\ \E i \in 1..Len(issues) : issues[i].message = VariablesMessage(3, 2)

(***************************************************************************)
(* C19: sparse indices.  Validation reports one diagnostic for every       *)
(* stored entry whose row index is not below shape[0] and one for every    *)
(* stored entry whose column index is not below shape[1], and none for an  *)
(* entry within shape.                                                     *)
(***************************************************************************)
IsSparseChecked == Checked /\ "sparse" \in DOMAIN TheProblem.constraints

C19_SparseIndexDiagnostics ==
  IsSparseChecked =>
    LET sp == TheProblem.constraints.sparse
    IN /\ \A i \in 1..Len(sp.rows) :
            Cardinality(AtPath("problem.constraints.sparse.rows." \o ToString(i - 1)))
              = (IF sp.rows[i] >= sp.shape[1] THEN 1 ELSE 0)
       /\ \A i \in 1..Len(sp.cols) :
            Cardinality(AtPath("problem.constraints.sparse.cols." \o ToString(i - 1)))
              = (IF sp.cols[i] >= sp.shape[2] THEN 1 ELSE 0)

\* an entry below shape[0]'s rows is stored, and no diagnostic names it
C19_IndexUnreported ==
  /\ IsSparseChecked
  /\ pc = "thrown"
  /\ ~NumVarsKnown
  /\ \E i \in 1..Len(TheProblem.constraints.sparse.rows) :
       /\ TheProblem.constraints.sparse.rows[i] >= TheProblem.constraints.sparse.shape[1]
       /\ AtPath("problem.constraints.sparse.rows." \o ToString(i - 1)) = {}

\* an entry within a shape that is wider than numVars gets a column diagnostic
C19_DiagnosticWithinShape ==
  /\ IsSparseChecked
  /\ pc = "thrown"
  /\ NumVarsKnown
  /\ ClaimNumVars = MaxVars
  /\ TheProblem.constraints.sparse.shape[2] = MaxVars + 1
  /\ TheProblem.constraints.sparse.cols = <<MaxVars>>
  /\ TheProblem.constraints.sparse.rows = <<0>>
  /\ \E i \in 1..Len(issues) :
       /\ issues[i].path = "problem.constraints.sparse.cols.0"
       /\ issues[i].message = "Column index " \o ToString(MaxVars)
                              \o " exceeds number of variables (" \o ToString(MaxVars) \o ")"

(***************************************************************************)
(* C20: sparse shape and arrays.  Validation reports a diagnostic when     *)
(* shape[1] differs from numVars, and a diagnostic when rows, cols and     *)
(* values do not all have the same length; a sparse Problem with neither   *)
(* defect gets neither diagnostic.                                         *)
(***************************************************************************)
ShapeMessage(m, n, expected) ==
  "Sparse matrix shape [" \o ToString(m) \o ", " \o ToString(n)
  \o "] doesn't match number of variables (" \o ToString(expected) \o ")"
ArraysMessage == "Sparse matrix arrays (rows, cols, values) must have equal length"

C20_SparseShapeDiagnostics ==
  IsSparseChecked =>
    LET sp == TheProblem.constraints.sparse
    IN /\ NumVarsKnown =>
            IF sp.shape[2] # ClaimNumVars
            THEN OnlyAt("problem.constraints.sparse.shape",
                        ShapeMessage(sp.shape[1], sp.shape[2], ClaimNumVars))
            ELSE AtPath("problem.constraints.sparse.shape") = {}
       /\ IF Len(sp.rows) # Len(sp.values) \/ Len(sp.cols) # Len(sp.values)
          THEN OnlyAt("problem.constraints.sparse", ArraysMessage)
          ELSE AtPath("problem.constraints.sparse") = {}

\* rows, cols and values of different lengths, and no diagnostic about it
C20_ArraysUnreported ==
  /\ IsSparseChecked
  /\ pc = "thrown"
  /\ ~NumVarsKnown
  /\ Len(TheProblem.constraints.sparse.rows) = 2
  /\ Len(TheProblem.constraints.sparse.cols) = 1
  /\ Len(TheProblem.constraints.sparse.values) = 0
  /\ AtPath("problem.constraints.sparse") = {}

(***************************************************************************)
(* C21: no mixed-integer quadratic problems.  A Problem whose objective    *)
(* has a quadratic term and in which a variable has type int or bin is     *)
(* rejected with the diagnostic that quadratic objectives are not          *)
(* supported with integer or binary variables; with a quadratic term and   *)
(* only continuous or untyped variables there is no such diagnostic.       *)
(***************************************************************************)
MiqpMessage ==
  "Quadratic objectives are not supported with integer or binary variables (MIQP not supported by HiGHS)"
MiqpIssues == {i \in 1..Len(issues) : issues[i].message = MiqpMessage}
HasQuadratic == TheProblem.objective.quadratic # None
HasIntegral ==
  \E i \in 1..Len(TheProblem.variables) :
    TheProblem.variables[i].type \in {Some("int"), Some("bin")}

C21_MiqpRejected ==
  (Checked /\ HasQuadratic) =>
    IF HasIntegral
    THEN /\ pc = "thrown"
         /\ error.code = "InvalidParams"
         /\ ~Invoked("encode")
         /\ Cardinality(MiqpIssues) = 1
         /\ \A i \in MiqpIssues : issues[i].path = "problem.objective.quadratic"
    ELSE MiqpIssues = {}

\* the only defect is the binary second variable
C21_Witness ==
  /\ Checked
  /\ pc = "thrown"
  /\ TheProblem.objective.linear = None
  /\ TheProblem.objective.quadratic = Some(DenseQ(<<<<1, 1>>, <<1, 1>>>>))
  /\ Len(TheProblem.variables) = 2
  /\ TheProblem.variables[1].type = Some("cont")
  /\ TheProblem.variables[2].type = Some("bin")
  /\ error.errors = <<"problem.objective.quadratic: " \o MiqpMessage>>

(***************************************************************************)
(* C22: the sizes of linear and quadratic.  An objective with both is      *)
(* accepted only if the length of linear equals the quadratic dimension    *)
(* (shape[0] of a sparse term, the row count of a dense one); an objective *)
(* with only one of the two passes this rule; an objective with neither is *)
(* rejected.                                                               *)
(***************************************************************************)
ObjectiveMessage ==
  "At least one of 'linear' or 'quadratic' must be provided. When both are present, dimensions must match."
ObjectiveRuleIssues ==
  {i \in 1..Len(issues) :
     issues[i].path = "problem.objective" /\ issues[i].message = ObjectiveMessage}
QuadraticDimension(q) == IF q.format = "dense" THEN Len(q.matrix) ELSE q.shape[1]
ObjectiveRuleBroken ==
  LET o == TheProblem.objective
  IN \/ o.linear = None /\ o.quadratic = None
     \/ /\ o.linear # None
        /\ o.quadratic # None
        /\ Len(o.linear[1]) # QuadraticDimension(o.quadratic[1])

C22_ObjectiveDimensions ==
  Checked =>
    IF ObjectiveRuleBroken
    THEN /\ pc = "thrown"
         /\ error.code = "InvalidParams"
         /\ ~Invoked("encode")
         /\ Cardinality(ObjectiveRuleIssues) = 1
    ELSE ObjectiveRuleIssues = {}

\* linear of length 2 and a sparse term of shape [1, 2]: 2 against 1
C22_Witness ==
  /\ Checked
  /\ pc = "thrown"
  /\ TheProblem.objective.linear = Some(<<1, 1>>)
  /\ TheProblem.objective.quadratic = Some(SparseQ(<<>>, <<>>, <<>>, <<1, 2>>))
  /\ Cardinality(ObjectiveRuleIssues) = 1

(***************************************************************************)
(* C23: the quadratic term is square.  A dense quadratic matrix is         *)
(* accepted only if it is non-empty and every row is as long as the matrix *)
(* has rows; a sparse quadratic term only if shape[0] equals shape[1];     *)
(* any other quadratic term is rejected by validation.                     *)
(***************************************************************************)
QuadraticMessage == "Quadratic matrix must be square with valid dimensions"
IsSquare(q) ==
  IF q.format = "dense"
  THEN /\ Len(q.matrix) >= 1
       /\ \A i \in 1..Len(q.matrix) : Len(q.matrix[i]) = Len(q.matrix)
  ELSE q.shape[1] = q.shape[2]

C23_QuadraticSquare ==
  (Checked /\ HasQuadratic /\ ~IsSquare(TheProblem.objective.quadratic[1])) =>
    /\ pc = "thrown"
    /\ error.code = "InvalidParams"
    /\ ~Invoked("encode")
    /\ \E i \in 1..Len(issues) :
         /\ issues[i].path = "problem.objective.quadratic"
         /\ issues[i].message = QuadraticMessage

\* a matrix of two rows whose second row is short
C23_Witness ==
  /\ Checked
  /\ pc = "thrown"
  /\ TheProblem.objective.linear = Some(<<1, 1>>)
  /\ TheProblem.objective.quadratic = Some(DenseQ(<<<<1, 1>>, <<1>>>>))
  /\ Len(TheProblem.variables) = 2
  /\ TheProblem.variables[1].type = None
  /\ TheProblem.constraints = BaseConstraints(2)
  /\ error.errors = <<"problem.objective.quadratic: " \o QuadraticMessage>>

(***************************************************************************)
(* C24: the rules are not short-circuited.  When the objective has neither *)
(* linear nor quadratic, that is reported as a diagnostic, and a length    *)
(* mismatch of constraints.sense or of constraints.rhs in the same Problem *)
(* is reported in the same validation call.                                *)
(***************************************************************************)
C24_NotShortCircuited ==
  (Checked /\ ~NumVarsKnown) =>
    LET c == TheProblem.constraints
    IN /\ AtPath("problem.objective") # {}
       /\ Len(c.sense) # ClaimNumConstraints => AtPath("problem.constraints.sense") # {}
       /\ Len(c.rhs) # ClaimNumConstraints => AtPath("problem.constraints.rhs") # {}

\* the second objective diagnostic is the last one: the callback has returned
C24_ShortCircuited ==
  /\ Checked
  /\ pc = "thrown"
  /\ ~NumVarsKnown
  /\ Len(TheProblem.constraints.sense) # ClaimNumConstraints
  /\ Len(TheProblem.constraints.rhs) # ClaimNumConstraints
  /\ Len(issues) >= 1
  /\ issues[Len(issues)] =
       [path |-> "problem.objective",
        message |-> "Cannot determine number of variables from objective"]

(***************************************************************************)
(* C25: the matrix normalizer.  For sparse constraints it returns a matrix *)
(* of exactly shape[0] rows by shape[1] columns in which cell (r, c) holds *)
(* the value of the last stored entry with coordinates (r, c), and 0 if no *)
(* entry has those coordinates; entries at the same coordinates are not    *)
(* summed.                                                                 *)
(***************************************************************************)
\* the matrix encode got from the normalizer for the request it encoded
NormalizedMatrix == convertConstraintsToDense(TheProblem.constraints).constraintMatrix
EntriesAt(sp, r, c) ==
  {i \in 1..Len(sp.values) : sp.rows[i] = r /\ sp.cols[i] = c}

C25_LastWriteWins ==
  (IsSparseRequest /\ Invoked("encode") /\ Encoded) =>
    LET sp == TheProblem.constraints.sparse
        M == NormalizedMatrix
    IN /\ DOMAIN M = 1..sp.shape[1]
       /\ \A r \in 1..sp.shape[1] :
            /\ DOMAIN M[r] = 1..sp.shape[2]
            /\ \A c \in 1..sp.shape[2] :
                 LET at == EntriesAt(sp, r - 1, c - 1)
                 IN M[r][c] = (IF at = {} THEN 0
                               ELSE sp.values[CHOOSE i \in at : \A j \in at : j <= i])

\* two entries at the far corner: the cell holds the second, not the sum
C25_Witness ==
  /\ IsSparseRequest
  /\ Encoded
  /\ TheProblem.constraints.sparse.shape = <<MaxCons, MaxVars>>
  /\ TheProblem.constraints.sparse.rows = <<MaxCons - 1, MaxCons - 1>>
  /\ TheProblem.constraints.sparse.cols = <<MaxVars - 1, MaxVars - 1>>
  /\ TheProblem.constraints.sparse.values = <<1, -2>>
  /\ NormalizedMatrix[MaxCons][MaxVars] = -2
  /\ NormalizedMatrix[1][1] = 0

(***************************************************************************)
(* C26: bounds safety of the normalizer.  For every Problem with sparse    *)
(* constraints that passes validation, every write of the normalizer goes  *)
(* to a row index below shape[0] and a column index below shape[1], and    *)
(* rows, cols and values are read only at indices all three have: no row   *)
(* is created or lengthened and no undefined value is written.             *)
(***************************************************************************)
\* the reads and the write of the loop over sparse.values, entry by entry
SafeWrite(sp, i) ==
  /\ i <= Len(sp.rows)
  /\ i <= Len(sp.cols)
  /\ sp.rows[i] >= 0 /\ sp.rows[i] < sp.shape[1]
  /\ sp.cols[i] >= 0 /\ sp.cols[i] < sp.shape[2]

C26_BoundsSafety ==
  (IsSparseChecked /\ Invoked("encode")) =>
    LET sp == TheProblem.constraints.sparse
    IN /\ \A i \in 1..Len(sp.values) : SafeWrite(sp, i)
       /\ Len(sp.rows) = Len(sp.values)
       /\ Len(sp.cols) = Len(sp.values)

\* a validated Problem whose entries reach the last column of its shape
C26_Witness ==
  /\ IsSparseChecked
  /\ Invoked("encode")
  /\ Encoded
  /\ TheProblem.constraints.sparse.shape = <<1, MaxVars + 1>>
  /\ TheProblem.constraints.sparse.rows = <<0, 0>>
  /\ TheProblem.constraints.sparse.cols = <<0, MaxVars>>
  /\ Len(TheProblem.constraints.sparse.values) = 2

(***************************************************************************)
(* C27: encode is total on validated input.  For every Problem that passes *)
(* validation, one whose objective has a quadratic term and no linear term *)
(* included, encode returns a text that ends in End, and does not throw.   *)
(***************************************************************************)
C27_EncodeTotal ==
  (Validated /\ Invoked("encode")) =>
    /\ Encoded
    /\ lpString[Len(lpString)] = <<"End">>
    /\ pc \in {"solve", "decode", "returned", "thrown"}
    /\ pc = "thrown" => Invoked("solve")

\* the quadratic-only Problem of the tests: validated, and encode throws
C27_EncodeThrows ==
  /\ Validated
  /\ issues = <<>>
  /\ trace = <<"safeParse", "highsLoader", "encode">>
  /\ TheProblem.objective = [linear |-> None,
                             quadratic |-> Some(DenseQ(<<<<2, 1>>, <<1, 4>>>>))]
  /\ TheProblem.constraints = DenseConstraints(<<<<1, 1>>>>, <<">=">>, <<1>>)
  /\ ~Encoded
  /\ pc = "thrown"
  /\ error.code = "InternalError"

(***************************************************************************)
(* C28: the tag of the decoded result.  For every solver result, whatever  *)
(* its status text, the decoded result has status "optimal" if and only if *)
(* it carries solution, dual_solution and variable_duals; a result whose   *)
(* status is not "optimal" carries none of the three and carries a         *)
(* message.                                                                *)
(***************************************************************************)
SolutionFields == {"solution", "dual_solution", "variable_duals"}

ColumnRead(i) == DecodeVarName(TheProblem.variables, i)

C30_DistinctNames ==
  Validated =>
    LET variables == TheProblem.variables
    IN \A i, j \in 1..Len(variables) :
         i # j => /\ ResolvedName(variables, i) # ResolvedName(variables, j)
                  /\ ColumnRead(i) # ColumnRead(j)

\* the first variable is named like the second one's default: one Bounds
\* name, one solver column, and both positions of the solution read it
C30_SharedColumn ==
  /\ Validated
  /\ issues = <<>>
  /\ pc = "returned"
  /\ result.Status = Optimal
  /\ Len(TheProblem.variables) = 2
  /\ TheProblem.variables[1].name = Some("x2")
  /\ TheProblem.variables[2].name = None
  /\ LpColumnNames(lpString) = <<"x2", "x2">>
  /\ DOMAIN result.Columns = {"x2"}
  /\ "Primal" \in DOMAIN result.Columns["x2"]
  /\ result.Columns["x2"].Primal # 0
  /\ decoded.solution = <<result.Columns["x2"].Primal, result.Columns["x2"].Primal>>

(***************************************************************************)
(* C29: one solver instance.  Across any number of tool calls and any      *)
(* interleaving of concurrently running calls, highsLoader is invoked at   *)
(* most once, and every call solves with that one cached instance.         *)
(***************************************************************************)
Solved == {c \in 1..MaxConcurrent : inflight[c].solved}

C29_LoaderOnce ==
  /\ loaderCalls <= 1
  /\ \A c \in Solved : inflight[c].highs = InstanceOf(1)
  /\ \A c, d \in Solved : inflight[c].highs = inflight[d].highs

\* two calls began before either loader resolved: two loads, two instances
C29_LoadedTwice ==
  /\ loaderCalls = 2
  /\ inflight[1].pc = "returned"
  /\ inflight[2].pc = "returned"
  /\ inflight[1].highs # inflight[2].highs
  /\ highsInstance \in {inflight[1].highs, inflight[2].highs}
====
